---- MODULE Spec2Model ----
(***************************************************************************)
(* State-machine model of the DexServer reconciler                         *)
(* (controllers/dexserver_controller.go): one convergence pass per         *)
(* reconciliation request, the mutual-TLS bundle lifecycle, the derived    *)
(* resources and the work queue that schedules the passes.                 *)
(*                                                                         *)
(* Optional values (a Get that may find nothing) are sequences of length   *)
(* 0 or 1.  Time is counted in whole certificate-clock units: X.509        *)
(* validity times and RFC3339 strings both have one-second granularity.    *)
(***************************************************************************)
EXTENDS Integers, Sequences, FiniteSets, TLC

(***************************************************************************)
(* Bounds of the model.                                                    *)
(***************************************************************************)
MaxTime == 2
NumChainIds == 2
\* disturbances in one behaviour: store or applier calls that fail for a
\* reason outside the program, and changes made by other actors
MaxDisturbances == 1
\* update events on deployments in one behaviour of the deployment watch
MaxEvents == 4

(***************************************************************************)
(* Program constants.                                                      *)
(***************************************************************************)
SECRET_MTLS_NAME == "grpc-mtls"
SERVICE_ACCOUNT_NAME == "dex-operator-dexsso"
GRPC_SERVICE_NAME == "grpc"
IDP_CREDENTIAL_LABEL == "auth.identitatem.io/idp-credential"
DexServerConditionTypeApplied == "Applied"

\* Go's zero time.Time (year 1), returned by time.Parse next to an error.
ZeroTime == -1000
\* Validity of a generated chain and lead time of the renewal window.
CertValidity == 2
CertRenewalWindow == 1

Instances == {"d1", "d2"}
SecretNames == {"s1", "s2"}
ChainIds == 1 .. NumChainIds

Steps ==
  << "mtls", "configmap", "service", "grpc", "serviceaccount",
     "clusterrolebinding", "deployment", "ingress" >>

VARIABLES
  now,          \* the wall clock
  dexImage,     \* value of the RELATED_IMAGE_DEX environment variable
  dexServers,   \* instance -> <<>> or <<[connectors, conditions]>>
  secrets,      \* credential secret name -> <<>> or <<[labels, data]>>
  mtls,         \* the grpc-mtls secret of the namespace: <<>> or <<secret>>
  mtlsWriter,   \* who wrote the grpc-mtls secret last
  derived,      \* derived resource name -> <<>> or <<[owner, values]>>
  pc,           \* instance -> position of its pass
  obj,          \* instance -> the DexServer object the pass loaded
  plan,         \* instance -> locals secretExists / regenerate of manageMTLSSecret
  cond,         \* instance -> the condition the pass is about to record
  rec,          \* instance -> what the current (or last) pass did
  queued,       \* instance -> a request is waiting in the work queue
  timer,        \* instance -> a RequeueAfter timer is pending
  result,       \* instance -> what the last pass returned
  stable,       \* instance -> every call of its last pass succeeded and
                \* nothing has changed since
  budget,       \* disturbances the environment may still cause
  deployments,  \* deployment name -> the Deployment object the watch saw last
  restartsInProgress,  \* the map of ignoreDeploymentRestartPredicate
  eventLog,     \* the update events on deployments and what the predicate
                \* made of each
  mergeArgs     \* the conditions handed to the last status merge

\* what the passes leave alone: the deployment watch and the merge argument
side == << deployments, restartsInProgress, eventLog, mergeArgs >>

vars ==
  << now, dexImage, dexServers, secrets, mtls, mtlsWriter, derived, pc, obj,
     plan, cond, rec, queued, timer, result, stable, budget, side >>

(***************************************************************************)
(* Values.                                                                 *)
(***************************************************************************)
None == << >>
Some(x) == << x >>
IsSome(o) == Len(o) > 0
Val(o) == o[1]

ConnectorTypeGitHub == "github"
ConnectorTypeMicrosoft == "microsoft"
ConnectorTypeLDAP == "ldap"

Connector(t, id, ref, rootCA) ==
  [type |-> t, id |-> id, secretRef |-> ref, rootCARef |-> rootCA]

\* The connector lists an instance is created with.
ConnectorChoices ==
  { << Connector(ConnectorTypeGitHub, "c1", "s1", "") >>,
    << Connector(ConnectorTypeLDAP, "c1", "s2", "s1"),
       Connector(ConnectorTypeMicrosoft, "c2", "s2", "") >>,
    << Connector(ConnectorTypeGitHub, "c1", "s1", ""),
       Connector("saml", "c2", "s2", "") >> }

\* What an external actor stores in credential secret s.
SecretData(s) ==
  [clientSecret |-> << s, "clientSecret" >>, bindPW |-> << s, "bindPW" >>,
   ca_crt |-> << s, "ca.crt" >>, tls_crt |-> << >>, tls_key |-> << >>]
\* corev1.Secret{}: what a failed Get leaves in the caller's object.
EmptySecretData ==
  [clientSecret |-> << >>, bindPW |-> << >>, ca_crt |-> << >>,
   tls_crt |-> << >>, tls_key |-> << >>]
UserLabels == {"team"}
NewCredential(s) == [labels |-> UserLabels, data |-> SecretData(s)]

(***************************************************************************)
(* The expiry annotation: a string that is absent/empty, not a timestamp,  *)
(* or an RFC3339 timestamp.                                                *)
(***************************************************************************)
NoAnnotation == [kind |-> "empty", t |-> 0]
Garbage == [kind |-> "garbage", t |-> 0]
\* expiry.UTC().Format(time.RFC3339)
FormatRFC3339(t) == [kind |-> "rfc3339", t |-> t]
\* time.Parse(time.RFC3339, s): the time and whether err == nil
ParseRFC3339(s) ==
  IF s.kind = "rfc3339" THEN [ok |-> TRUE, time |-> s.t]
  ELSE [ok |-> FALSE, time |-> ZeroTime]

\* now lies in the renewal window of a certificate expiring at expiry
inCertRenewalWindow(expiry, t) == t >= expiry - CertRenewalWindow

(***************************************************************************)
(* Certificate material.                                                   *)
(***************************************************************************)
Cert(role, chain, notAfter) ==
  [pem |-> "CERTIFICATE", role |-> role, chain |-> chain, notAfter |-> notAfter]
Key(role, chain) ==
  [pem |-> "RSA PRIVATE KEY", role |-> role, chain |-> chain, notAfter |-> 0]

\* chain ids that occur in a bundle
ChainsOf(b) ==
  IF IsSome(b)
  THEN { blk.chain : blk \in
           { Val(b).data[f][1] : f \in DOMAIN Val(b).data } }
  ELSE {}
\* a chain id no certificate of the stored bundle carries: freshly drawn keys
FreshChain(b) == CHOOSE c \in ChainIds : c \notin ChainsOf(b)

\* Validity of the generated CA certificate.
CAValidity == 4

\* generateMTLSCerts: a new CA, and a server and a client certificate signed
\* by it; expiry is the server certificate's NotAfter.
generateMTLSCerts(chain, t) ==
  [caPEM |-> << Cert("ca", chain, t + CAValidity) >>,
   caPrivKeyPEM |-> << Key("ca", chain) >>,
   certPEM |-> << Cert("server", chain, t + CertValidity) >>,
   certPrivKeyPEM |-> << Key("server", chain) >>,
   clientPEM |-> << Cert("client", chain, t + CertValidity) >>,
   clientPrivKeyPEM |-> << Key("client", chain) >>,
   expiry |-> t + CertValidity]

\* leaves re-signed under the CA of the stored bundle
MTLSDataKeepingCA(mtlsCerts) ==
  [ca_crt |-> IF IsSome(mtls) THEN Val(mtls).data.ca_crt ELSE mtlsCerts.caPEM,
   ca_key |-> IF IsSome(mtls) THEN Val(mtls).data.ca_key ELSE mtlsCerts.caPrivKeyPEM,
   tls_crt |-> mtlsCerts.certPEM \o mtlsCerts.certPEM,
   tls_key |-> mtlsCerts.certPrivKeyPEM,
   client_crt |-> mtlsCerts.clientPEM \o mtlsCerts.clientPEM,
   client_key |-> mtlsCerts.clientPrivKeyPEM]

\* the data of the secret, from one generated chain
MTLSData(mtlsCerts) ==
  [ca_crt |-> mtlsCerts.caPEM,
   ca_key |-> mtlsCerts.caPrivKeyPEM,
   tls_crt |-> mtlsCerts.certPEM \o mtlsCerts.certPEM,
   tls_key |-> mtlsCerts.certPrivKeyPEM,
   client_crt |-> mtlsCerts.clientPEM \o mtlsCerts.clientPEM,
   client_key |-> mtlsCerts.clientPrivKeyPEM]

\* the annotation taken from the CA certificate
ExpiryAnnotationOfCA(mtlsCerts) == FormatRFC3339(mtlsCerts.caPEM[1].notAfter)

\* the value of the expiry annotation
ExpiryAnnotation(mtlsCerts) == FormatRFC3339(mtlsCerts.expiry)

\* a call that leaves the owner references as they are
SetControllerReferenceSkipped(m, refs) == refs

\* controllerutil.SetControllerReference(m, object): refs are the object's
\* owner references (all of them controller references of DexServers); an
\* object controlled by another owner is left as it is, else the reference
\* to m is the controller reference
SetControllerReference(m, refs) ==
  IF \E k \in 1 .. Len(refs) : refs[k] # m THEN refs
  ELSE IF refs = << >> THEN << m >> ELSE refs

\* the instances an object's owner references name
Owners(object) == { object.owners[k] : k \in 1 .. Len(object.owners) }

defineMTLSSecret(m, mtlsCerts) ==
  [name |-> SECRET_MTLS_NAME,
   labels |-> {"app"},
   annotation |-> ExpiryAnnotation(mtlsCerts),
   owners |-> SetControllerReference(m, << >>),
   data |-> MTLSData(mtlsCerts)]

\* a secret that exists is regenerated on every pass
regenerateAlways(secret, t) == TRUE

\* a missing or unparseable annotation read as "no expiry"
regenerateOnlyInWindow(secret, t) ==
  LET parsed == ParseRFC3339(secret.annotation)
  IN  parsed.ok /\ inCertRenewalWindow(parsed.time, t)

\* manageMTLSSecret, the branch for a secret that exists: must it be regenerated?
regenerate(secret, t) ==
  LET expiry == secret.annotation
      parsed == ParseRFC3339(expiry)
  IN  IF expiry = NoAnnotation THEN TRUE
      ELSE (~parsed.ok) \/ inCertRenewalWindow(parsed.time, t)

\* manageMTLSSecret up to the write: what getMTLSSecret returned decides
\* the locals secretExists and regenerate, or the step's error
Seen(kind, s) == [kind |-> kind, secret |-> s]
decideMTLS(seen, t) ==
  [err |-> seen.kind = "error",
   secretExists |-> seen.kind = "found",
   regenerate |-> seen.kind = "found" /\ regenerate(Val(seen.secret), t)]

\* the write manageMTLSSecret issues for its locals
\* a write that does not look at what the Get found
mtlsOpWithoutLookup(p) == "create"

mtlsOp(p) ==
  IF (~p.secretExists) \/ p.regenerate
  THEN (IF ~p.secretExists THEN "create" ELSE "update")
  ELSE "none"

(***************************************************************************)
(* Reconcile: the order of the steps, the conditions and the result.       *)
(***************************************************************************)
\* a copied failure branch that kept the reason of the branch above it
ReasonOfCopied(step) ==
  CASE step = "mtls" -> "ConfigMTLSSecretFailed"
    [] step = "configmap" -> "ConfigMapFailed"
    [] step = "service" -> "ConfigHTTPServiceFailed"
    [] step = "grpc" -> "ConfigHTTPServiceFailed"
    [] step = "serviceaccount" -> "ConfigServiceAccountFailed"
    [] step = "clusterrolebinding" -> "ConfigClusterRoleBindingFailed"
    [] step = "deployment" -> "ConfigDeploymentFailed"
    [] step = "ingress" -> "ConfigIngressFailed"

ReasonOf(step) ==
  CASE step = "mtls" -> "ConfigMTLSSecretFailed"
    [] step = "configmap" -> "ConfigMapFailed"
    [] step = "service" -> "ConfigHTTPServiceFailed"
    [] step = "grpc" -> "ConfigGRPCServiceFailed"
    [] step = "serviceaccount" -> "ConfigServiceAccountFailed"
    [] step = "clusterrolebinding" -> "ConfigClusterRoleBindingFailed"
    [] step = "deployment" -> "ConfigDeploymentFailed"
    [] step = "ingress" -> "ConfigIngressFailed"

MessageOf(step) ==
  CASE step = "mtls" -> "failed to configure MTLS secret"
    [] step = "configmap" -> "failed to sync ConfigMap"
    [] step = "service" -> "failed to sync http service"
    [] step = "grpc" -> "failed to sync grpc service"
    [] step = "serviceaccount" -> "failed to sync ServiceAccount"
    [] step = "clusterrolebinding" -> "failed to sync ClusterRoleBinding"
    [] step = "deployment" -> "failed to sync Deployment"
    [] step = "ingress" -> "failed to sync Ingress"

Condition(status, reason, message) ==
  [type |-> DexServerConditionTypeApplied, status |-> status,
   reason |-> reason, message |-> message]
FailedCondition(step) == Condition("False", ReasonOf(step), MessageOf(step))
AppliedCondition == Condition("True", "Applied", "DexServer is applied")
NoCondition == Condition("Unknown", "", "")

IndexOf(step) == CHOOSE k \in 1 .. Len(Steps) : Steps[k] = step

\* a failure branch that does not return
AfterWithoutReturn(step, ok) ==
  IF IndexOf(step) < Len(Steps) THEN Steps[IndexOf(step) + 1] ELSE "status"

\* where Reconcile goes after a step returned: the next step, or the status
\* update that ends the pass
After(step, ok) ==
  IF ok /\ IndexOf(step) < Len(Steps) THEN Steps[IndexOf(step) + 1]
  ELSE "status"

\* the condition Reconcile records when it leaves the steps
CondAfter(step, ok) == IF ok THEN AppliedCondition ELSE FailedCondition(step)

\* the error of the status update dropped
ReturnOfDroppingStatusError(stepErr, statusOk) ==
  IF stepErr THEN "error" ELSE "requeueAfter"

\* a success that asks for no requeue
ReturnOfWithoutRequeue(stepErr, statusOk) ==
  IF (~statusOk) \/ stepErr THEN "error" ELSE "done"

\* what Reconcile returns: the step's or the status update's error, or the
\* hourly requeue
ReturnOf(stepErr, statusOk) ==
  IF ~statusOk THEN "error"
  ELSE IF stepErr THEN "error" ELSE "requeueAfter"
(***************************************************************************)
(* Status conditions.                                                      *)
(***************************************************************************)
FindStatusCondition(conds, type) ==
  IF \E k \in 1 .. Len(conds) : conds[k].type = type
  THEN CHOOSE k \in 1 .. Len(conds) :
         /\ conds[k].type = type
         /\ \A l \in 1 .. k - 1 : conds[l].type # type
  ELSE 0

\* a setter that never looks for a record of the type
SetStatusConditionAppending(conds, c, t) ==
  Append(conds, [type |-> c.type, status |-> c.status, reason |-> c.reason,
                 message |-> c.message, lastTransitionTime |-> t])

\* meta.SetStatusCondition at time t
SetStatusCondition(conds, c, t) ==
  LET k == FindStatusCondition(conds, c.type)
  IN  IF k = 0
      THEN Append(conds, [type |-> c.type, status |-> c.status,
                          reason |-> c.reason, message |-> c.message,
                          lastTransitionTime |-> t])
      ELSE [conds EXCEPT ![k] =
              [type |-> @.type, status |-> c.status, reason |-> c.reason,
               message |-> c.message,
               lastTransitionTime |->
                 IF @.status # c.status THEN t ELSE @.lastTransitionTime]]

\* a merge that is a full replace
mergeStatusConditionsReplacing(conditions, newConditions, t) ==
  [k \in 1 .. Len(newConditions) |->
     [type |-> newConditions[k].type, status |-> newConditions[k].status,
      reason |-> newConditions[k].reason,
      message |-> newConditions[k].message, lastTransitionTime |-> t]]

RECURSIVE mergeStatusConditions(_, _, _)
mergeStatusConditions(conditions, newConditions, t) ==
  IF newConditions = << >> THEN conditions
  ELSE mergeStatusConditions(SetStatusCondition(conditions, Head(newConditions), t),
                             Tail(newConditions), t)

(***************************************************************************)
(* Derived resources and the events their changes raise.                   *)
(***************************************************************************)
RConfigMap(m) == << "ConfigMap", m >>
RService(m) == << "Service", m >>
RServiceGrpc == << "Service", GRPC_SERVICE_NAME >>
RServiceAccount == << "ServiceAccount", SERVICE_ACCOUNT_NAME >>
RClusterRoleBinding == << "ClusterRoleBinding", SERVICE_ACCOUNT_NAME >>
RDeployment(m) == << "Deployment", m >>
RIngress(m) == << "Ingress", m >>

ResourceNames ==
  {RServiceGrpc, RServiceAccount, RClusterRoleBinding}
    \cup UNION { {RConfigMap(m), RService(m), RDeployment(m), RIngress(m)} :
                 m \in Instances }

\* kinds the controller watches through Owns(...)
OwnedKinds == {"ConfigMap", "Service", "ServiceAccount", "Deployment", "Ingress"}

\* create-or-update of the rendered template, tagged with the owner
Apply(m, name, values) ==
  [derived EXCEPT ![name] =
     Some([owners |-> SetControllerReference(m, << >>), values |-> values])]

\* watches that raise an event for every applied resource, changed or not
OwnerEventsOnEveryApply(d, e) ==
  { m \in Instances :
      \E n \in ResourceNames :
        /\ n[1] \in OwnedKinds
        /\ IsSome(e[n]) /\ m \in Owners(Val(e[n])) }

\* instances enqueued by the Owns watches when the derived resources go
\* from d to e: the owners of every watched resource that changed
OwnerEvents(d, e) ==
  { m \in Instances :
      \E n \in ResourceNames :
        /\ n[1] \in OwnedKinds
        /\ d[n] # e[n]
        /\ \/ IsSome(d[n]) /\ m \in Owners(Val(d[n]))
           \/ IsSome(e[n]) /\ m \in Owners(Val(e[n])) }

\* the same for the grpc-mtls secret, watched through Owns(&corev1.Secret{})
MTLSEvents(b, c) ==
  { m \in Instances :
      /\ b # c
      /\ \/ IsSome(b) /\ m \in Owners(Val(b))
         \/ IsSome(c) /\ m \in Owners(Val(c)) }

\* a mapping that stops at the first item of the list
FirstDexServer == { m \in Instances : IsSome(dexServers[m]) /\ m = "d1" }

\* mgr.GetClient().List(&dexServerList): every instance that exists
AllDexServers == { m \in Instances : IsSome(dexServers[m]) }

\* secretPredicate: only UpdateFunc is set; predicate.Funcs admits the
\* event kinds whose function is nil
secretPredicate(kind, newLabels) ==
  IF kind = "update" THEN IDP_CREDENTIAL_LABEL \in newLabels ELSE TRUE

\* instances enqueued by the Watches(Secret) mapping for one event
SecretEvents(kind, newLabels) ==
  IF secretPredicate(kind, newLabels) THEN AllDexServers ELSE {}

\* sha256 over json.Marshal of the stored object
Sha256(object) == [sha256 |-> object]
(***************************************************************************)
(* syncConfigMap: the walk over the connectors.                            *)
(***************************************************************************)
KnownTypes == {ConnectorTypeGitHub, ConnectorTypeMicrosoft, ConnectorTypeLDAP}

\* the key of the credential in the referenced secret
SecretKey(type) == IF type = ConnectorTypeLDAP THEN "bindPW" ELSE "clientSecret"

\* checkAndAddLabelToSecret on a secret that was read from the store: the
\* store after it (updOk: the Update call succeeds)
checkAndAddLabelToSecret(secs, name, updOk) ==
  IF IDP_CREDENTIAL_LABEL \in Val(secs[name]).labels \/ ~updOk THEN secs
  ELSE [secs EXCEPT ![name] =
          Some([Val(@) EXCEPT !.labels = @ \cup {IDP_CREDENTIAL_LABEL}])]

\* getConnectorSecretFromRef: the Get of the referenced secret ends "found",
\* "notfound" or "error"; only "notfound" is returned as an error, and any
\* other failure leaves the empty corev1.Secret{} to be read
GetOutcome(secs, name, getErr) ==
  IF getErr THEN "error" ELSE IF IsSome(secs[name]) THEN "found" ELSE "notfound"

getConnectorSecretFromRef(connector, secs, getErr, updOk) ==
  LET outcome == GetOutcome(secs, connector.secretRef, getErr)
      data == IF outcome = "found" THEN Val(secs[connector.secretRef]).data
              ELSE EmptySecretData
  IN  [err |-> outcome = "notfound",
       value |-> data[SecretKey(connector.type)],
       secrets |-> IF outcome = "found"
                   THEN checkAndAddLabelToSecret(secs, connector.secretRef, updOk)
                   ELSE secs,
       fault |-> getErr \/ (outcome = "found" /\ ~updOk
                            /\ IDP_CREDENTIAL_LABEL
                                 \notin Val(secs[connector.secretRef]).labels)]

\* the LDAP root CA secret: labelled before it is read (the Update of the
\* still empty object is rejected by the store), then read
RootCA(connector, secs, getErr) ==
  LET outcome == GetOutcome(secs, connector.rootCARef, getErr)
      data == IF outcome = "found" THEN Val(secs[connector.rootCARef]).data
              ELSE EmptySecretData
      path(f) == << "/etc/dex/ldapcerts", connector.id, f >>
  IN  [err |-> outcome = "notfound",
       rootCA |-> IF data.ca_crt # << >> THEN path("ca.crt") ELSE << >>,
       clientCA |-> IF data.tls_crt # << >> THEN path("tls.crt") ELSE << >>,
       clientKey |-> IF data.tls_key # << >> THEN path("tls.key") ELSE << >>]

NoRootCA == [err |-> FALSE, rootCA |-> << >>, clientCA |-> << >>, clientKey |-> << >>]

DexConnectorSpec(connector, value, ca) ==
  [type |-> connector.type, id |-> connector.id, secret |-> value,
   rootCA |-> ca.rootCA, clientCA |-> ca.clientCA, clientKey |-> ca.clientKey]

\* The loop of syncConfigMap from connector k on.  getErr, updOk, caErr give
\* the outcome of the store calls made for each connector.  The result says
\* whether the loop ran to its end (apply) or returned early, the connector
\* entries built, the store of credential secrets and whether a call failed.
RECURSIVE connectorLoop(_, _, _, _, _, _, _, _)
connectorLoop(conns, k, secs, acc, fault, getErr, updOk, caErr) ==
  IF k > Len(conns)
  THEN [apply |-> TRUE, connectors |-> acc, secrets |-> secs, fault |-> fault]
  ELSE
    LET c == conns[k]
        early == [apply |-> FALSE, connectors |-> acc, secrets |-> secs,
                  fault |-> fault]
    IN  IF c.type \notin KnownTypes THEN early
        ELSE
          LET got == getConnectorSecretFromRef(c, secs, getErr[k], updOk[k])
              withCA == c.type = ConnectorTypeLDAP /\ c.rootCARef # ""
              ca == IF withCA THEN RootCA(c, got.secrets, caErr[k]) ELSE NoRootCA
          IN  IF got.err THEN early
              ELSE IF ca.err
                THEN [early EXCEPT !.secrets = got.secrets,
                                   !.fault = fault \/ got.fault]
              ELSE connectorLoop(conns, k + 1, got.secrets,
                                 Append(acc, DexConnectorSpec(c, got.value, ca)),
                                 fault \/ got.fault \/ (withCA /\ caErr[k]),
                                 getErr, updOk, caErr)

\* what syncConfigMap returns: nil when the loop returned early, else the
\* applier's error
syncConfigMapOk(apply, applyOk) == IF apply THEN applyOk ELSE TRUE
(***************************************************************************)
(* The watch on DexServer objects.                                         *)
(***************************************************************************)
SpecOf(d) == [connectors |-> d.connectors, issuer |-> d.issuer]

\* a predicate that lets every update through
dexServerPredicateAnyUpdate(kind, old, new) == kind \in {"create", "update"}

\* dexServerPredicate: creations pass, deletions and generic events do
\* not, updates pass when the finalizers or the spec changed
dexServerPredicate(kind, old, new) ==
  CASE kind = "generic" -> FALSE
    [] kind = "delete" -> FALSE
    [] kind = "create" -> TRUE
    [] kind = "update" ->
         (old.finalizers # new.finalizers) \/ (SpecOf(old) # SpecOf(new))

\* instances enqueued by For(&DexServer{}) for one event on instance m
DexServerEvents(m, kind, old, new) ==
  IF dexServerPredicate(kind, old, new) THEN {m} ELSE {}

(***************************************************************************)
(* Initial state: the process has started, instance d1 has just been       *)
(* created (its create event is in the queue), nothing is deployed yet.    *)
(***************************************************************************)
Issuer == "https://dex.example.com"
\* an issuer url.Parse rejects (the host's bracket is not closed)
BadIssuer == "https://[dex.example.com"
DexImages == {"", "quay.io/dexidp/dex"}

\* a DexServer: spec (connectors, issuer), status (conditions) and the
\* metadata the watch looks at
NewDexServer(connectors) ==
  [connectors |-> connectors, issuer |-> Issuer, conditions |-> << >>,
   finalizers |-> {}, labels |-> {}]

NoPass ==
  [trace |-> << >>, fault |-> FALSE, dirty |-> FALSE, statusOk |-> FALSE]
NoPlan == [err |-> FALSE, secretExists |-> FALSE, regenerate |-> FALSE]

InitWith(existing, disturbances) ==
  /\ now = 0
  /\ dexImage \in DexImages
  /\ \E c \in [existing -> ConnectorChoices] :
       dexServers = [m \in Instances |->
                       IF m \in existing THEN Some(NewDexServer(c[m])) ELSE None]
  /\ \E present \in {{}, SecretNames} :
       secrets = [s \in SecretNames |->
                    IF s \in present
                    THEN Some(NewCredential(s))
                    ELSE None]
  /\ mtls = None
  /\ mtlsWriter = "none"
  /\ derived = [n \in ResourceNames |-> None]
  /\ pc = [m \in Instances |-> "idle"]
  /\ obj = [m \in Instances |-> NewDexServer(<< >>)]
  /\ plan = [m \in Instances |-> NoPlan]
  /\ cond = [m \in Instances |-> NoCondition]
  /\ rec = [m \in Instances |-> NoPass]
  /\ queued = [m \in Instances |->
                 /\ m \in existing
                 /\ m \in DexServerEvents(m, "create", Val(dexServers[m]),
                                          Val(dexServers[m]))]
  /\ timer = [m \in Instances |-> FALSE]
  /\ result = [m \in Instances |-> "none"]
  /\ stable = [m \in Instances |-> FALSE]
  /\ budget = disturbances

\* no deployment has been seen by the watch, no status has been merged
NoSideEffects ==
  /\ deployments = [n \in Instances |-> None]
  /\ restartsInProgress = [n \in Instances |-> None]
  /\ eventLog = << >>
  /\ mergeArgs = << >>

Init == InitWith({"d1"}, MaxDisturbances) /\ NoSideEffects

(***************************************************************************)
(* Bookkeeping shared by the actions.                                      *)
(***************************************************************************)
Cluster == << mtls, secrets, derived >>

\* requests added to the work queue
Enqueue(ms) == queued' = [m \in Instances |-> queued[m] \/ m \in ms]

\* a call of the action failed for a reason outside the program (fault), or
\* none did
Fault(fault) ==
  /\ fault => budget > 0
  /\ budget' = IF fault THEN budget - 1 ELSE budget

\* a step of the pass of m returned: Reconcile moves on (r: the record of
\* the pass so far)
Returned(m, r, step, ok, fault) ==
  /\ pc' = [pc EXCEPT ![m] = After(step, ok)]
  /\ cond' = [cond EXCEPT ![m] =
                IF After(step, ok) = "status" THEN CondAfter(step, ok) ELSE @]
  /\ rec' = [j \in Instances |->
               IF j = m
               THEN [r EXCEPT !.trace = Append(@, [step |-> step, ok |-> ok]),
                              !.fault = @ \/ fault]
               ELSE [rec[j] EXCEPT !.dirty = @ \/ Cluster' # Cluster]]
  /\ stable' = [j \in Instances |-> stable[j] /\ Cluster' = Cluster]
  /\ Fault(fault)

\* an actor other than the controller changed the cluster
External ==
  /\ budget > 0
  /\ budget' = budget - 1
  /\ rec' = [j \in Instances |-> [rec[j] EXCEPT !.dirty = TRUE]]
  /\ stable' = [j \in Instances |-> FALSE]

(***************************************************************************)
(* Reconcile: loading the instance.                                        *)
(***************************************************************************)
\* the controller is built without options: one worker takes one request at
\* a time
WorkerFree == \A j \in Instances : pc[j] = "idle"

\* an IgnoreNotFound that hands every error on
IgnoreNotFoundNever(err) == err

\* client.IgnoreNotFound(err): nil for a not-found error
IgnoreNotFound(err) == IF err = "notfound" THEN "nil" ELSE err

\* line 114: what Reconcile returns when the Get failed with err
LoadReturn(err) == IF IgnoreNotFound(err) = "nil" THEN "done" ELSE "error"

Load(m) ==
  /\ UNCHANGED side
  /\ WorkerFree /\ queued[m]
  /\ IsSome(dexServers[m])
  /\ queued' = [queued EXCEPT ![m] = FALSE]
  /\ obj' = [obj EXCEPT ![m] = Val(dexServers[m])]
  /\ pc' = [pc EXCEPT ![m] = "mtls"]
  /\ rec' = [rec EXCEPT ![m] = NoPass]
  /\ plan' = [plan EXCEPT ![m] = NoPlan]
  /\ cond' = [cond EXCEPT ![m] = NoCondition]
  /\ result' = [result EXCEPT ![m] = "running"]
  /\ UNCHANGED << now, dexImage, dexServers, secrets, mtls, mtlsWriter,
                  derived, timer, stable, budget >>

\* the instance is gone: client.IgnoreNotFound, no requeue
LoadNotFound(m) ==
  /\ UNCHANGED side
  /\ WorkerFree /\ queued[m]
  /\ ~IsSome(dexServers[m])
  \* a returned error puts the request back on the queue
  /\ queued' = [queued EXCEPT ![m] = LoadReturn("notfound") = "error"]
  /\ result' = [result EXCEPT ![m] = LoadReturn("notfound")]
  /\ rec' = [rec EXCEPT ![m] = NoPass]
  /\ UNCHANGED << now, dexImage, dexServers, secrets, mtls, mtlsWriter,
                  derived, pc, obj, plan, cond, timer, stable, budget >>

\* any other failure of the Get: returned, the request is queued again
LoadError(m) ==
  /\ UNCHANGED side
  /\ WorkerFree /\ queued[m]
  /\ result' = [result EXCEPT ![m] = LoadReturn("other")]
  /\ rec' = [rec EXCEPT ![m] = NoPass]
  /\ Fault(TRUE)
  /\ UNCHANGED << now, dexImage, dexServers, secrets, mtls, mtlsWriter,
                  derived, pc, obj, plan, cond, queued, timer, stable >>

(***************************************************************************)
(* Step 1: manageMTLSSecret, its read and its write.                       *)
(***************************************************************************)
MTLSGet(m) ==
  /\ UNCHANGED side
  /\ pc[m] = "mtls"
  /\ UNCHANGED << now, dexImage, dexServers, secrets, mtls, mtlsWriter,
                  derived, obj, queued, timer, result >>
  /\ \E getErr \in BOOLEAN :
       LET seen == IF getErr THEN Seen("error", None)
                   ELSE IF IsSome(mtls) THEN Seen("found", mtls)
                   ELSE Seen("notfound", None)
           p == decideMTLS(seen, now)
       IN  /\ plan' = [plan EXCEPT ![m] = p]
           /\ IF p.err
              THEN Returned(m, rec[m], "mtls", FALSE, TRUE)
              ELSE IF mtlsOp(p) = "none"
                THEN Returned(m, rec[m], "mtls", TRUE, FALSE)
              ELSE /\ pc' = [pc EXCEPT ![m] = "mtlsWrite"]
                   /\ rec' = rec
                   /\ UNCHANGED << cond, stable, budget >>

\* generateMTLSCerts, defineMTLSSecret and the Create or Update
MTLSWrite(m) ==
  /\ UNCHANGED side
  /\ pc[m] = "mtlsWrite"
  /\ \E callOk \in BOOLEAN :
       LET mTLSCerts == generateMTLSCerts(FreshChain(mtls), now)
           spec == defineMTLSSecret(m, mTLSCerts)
           op == mtlsOp(plan[m])
           \* Create fails on a secret that exists, Update on one that is gone
           ok == callOk /\ (IF op = "create" THEN ~IsSome(mtls) ELSE IsSome(mtls))
       IN  /\ mtls' = IF ok THEN Some(spec) ELSE mtls
           /\ mtlsWriter' = IF ok THEN "controller" ELSE mtlsWriter
           /\ Enqueue(MTLSEvents(mtls, mtls')
                        \cup (IF ok /\ op = "create"
                              THEN SecretEvents("create", spec.labels) ELSE {}))
           /\ UNCHANGED << secrets, derived >>
           /\ Returned(m, rec[m], "mtls", ok, ~callOk)
  /\ UNCHANGED << now, dexImage, dexServers, obj, plan, timer, result >>

(***************************************************************************)
(* Step 2: syncConfigMap.                                                  *)
(***************************************************************************)
ConfigMapValues(issuer, connectors) ==
  [Issuer |-> issuer, ConnectorsYaml |-> connectors]

\* the calls syncConfigMap makes for a list of connectors: the Get and the
\* label Update of each credential secret, the Get of each root CA secret,
\* and the apply of the config map
ConfigCalls(conns) == ({"get", "update", "ca"} \X (1 .. Len(conns))) \cup {<< "apply", 0 >>}

SyncConfigMap(m) ==
  /\ UNCHANGED side
  /\ pc[m] = "configmap"
  /\ LET conns == obj[m].connectors
         idx == 1 .. Len(conns)
     IN  \E failing \in { f \in SUBSET ConfigCalls(conns) : Cardinality(f) <= budget } :
           LET getErr == [k \in idx |-> << "get", k >> \in failing]
               updOk == [k \in idx |-> << "update", k >> \notin failing]
               caErr == [k \in idx |-> << "ca", k >> \in failing]
               applyOk == << "apply", 0 >> \notin failing
               w == connectorLoop(conns, 1, secrets, << >>, FALSE,
                                  getErr, updOk, caErr)
           IN  /\ failing # {} => (w.fault \/ (w.apply /\ ~applyOk))
               /\ secrets' = w.secrets
               /\ derived' =
                    IF w.apply /\ applyOk
                    THEN Apply(m, RConfigMap(m),
                               ConfigMapValues(obj[m].issuer, w.connectors))
                    ELSE derived
               /\ Enqueue(OwnerEvents(derived, derived')
                            \cup (IF secrets' # secrets
                                  THEN SecretEvents("update", {IDP_CREDENTIAL_LABEL})
                                  ELSE {}))
               /\ UNCHANGED mtls
               /\ Returned(m, rec[m], "configmap",
                           syncConfigMapOk(w.apply, applyOk),
                           w.fault \/ (w.apply /\ ~applyOk))
  /\ UNCHANGED << now, dexImage, dexServers, mtlsWriter, obj, plan, timer,
                  result >>

(***************************************************************************)
(* Steps 3 to 6 and 8: one template each, applied with the instance as     *)
(* owner.                                                                  *)
(***************************************************************************)
ApplyStep(m, step, name, values) ==
  /\ UNCHANGED side
  /\ pc[m] = step
  /\ \E applyOk \in BOOLEAN :
       /\ derived' = IF applyOk THEN Apply(m, name, values) ELSE derived
       /\ Enqueue(OwnerEvents(derived, derived'))
       /\ UNCHANGED << mtls, secrets >>
       /\ Returned(m, rec[m], step, applyOk, ~applyOk)
  /\ UNCHANGED << now, dexImage, dexServers, mtlsWriter, obj, plan, timer,
                  result >>

SyncService(m) ==
  ApplyStep(m, "service", RService(m), [ServingCertSecretName |-> << m, "-tls-secret" >>])

SyncServiceGrpc(m) ==
  ApplyStep(m, "grpc", RServiceGrpc, [GrpcServiceName |-> GRPC_SERVICE_NAME])

SyncServiceAccount(m) ==
  ApplyStep(m, "serviceaccount", RServiceAccount,
            [ServiceAccountName |-> SERVICE_ACCOUNT_NAME])

SyncClusterRoleBinding(m) ==
  ApplyStep(m, "clusterrolebinding", RClusterRoleBinding,
            [ClusterRoleName |-> SERVICE_ACCOUNT_NAME])

\* url.Parse(issuer): the URL, or nil next to the error that is dropped
ParseURL(issuer) ==
  IF issuer = BadIssuer THEN None ELSE Some([Host |-> << "host", issuer >>])

\* u.Host
HostOf(issuer) == Val(ParseURL(issuer)).Host

SyncIngress(m) ==
  /\ IsSome(ParseURL(obj[m].issuer))
  /\ ApplyStep(m, "ingress", RIngress(m), [Host |-> HostOf(obj[m].issuer)])

\* u is nil: reading u.Host panics, the pass ends without a return
SyncIngressPanic(m) ==
  /\ UNCHANGED side
  /\ pc[m] = "ingress"
  /\ ~IsSome(ParseURL(obj[m].issuer))
  /\ pc' = [pc EXCEPT ![m] = "panic"]
  /\ result' = [result EXCEPT ![m] = "panic"]
  /\ UNCHANGED << now, dexImage, dexServers, secrets, mtls, mtlsWriter,
                  derived, obj, plan, cond, rec, queued, timer, stable, budget >>

\* The panic ends the process; its supervisor starts it again.  The new
\* process lists what exists: every instance gets a create event, and the
\* old process's timers are gone.
Restart ==
  /\ \E m \in Instances : pc[m] = "panic"
  /\ restartsInProgress' = [n \in DOMAIN restartsInProgress |-> None]
  /\ UNCHANGED << deployments, eventLog, mergeArgs >>
  /\ pc' = [m \in Instances |-> "idle"]
  /\ queued' = [m \in Instances |->
                  /\ IsSome(dexServers[m])
                  /\ m \in DexServerEvents(m, "create", Val(dexServers[m]),
                                           Val(dexServers[m]))]
  /\ timer' = [m \in Instances |-> FALSE]
  /\ rec' = [m \in Instances |-> NoPass]
  /\ plan' = [m \in Instances |-> NoPlan]
  /\ cond' = [m \in Instances |-> NoCondition]
  /\ UNCHANGED << now, dexImage, dexServers, secrets, mtls, mtlsWriter,
                  derived, obj, result, stable, budget >>

(***************************************************************************)
(* Step 7: syncDeployment.                                                 *)
(***************************************************************************)
\* getDexImagePullSpec: the error when the variable is empty or not set
getDexImagePullSpecOk(image) == image # ""

\* connectors that mount their root CA secret
AdditionalVolumes(conns) ==
  { << conns[k].id, conns[k].rootCARef >> :
      k \in { l \in 1 .. Len(conns) :
                conns[l].type = ConnectorTypeLDAP /\ conns[l].rootCARef # "" } }

\* a digest taken over the issuer alone
DexConfigMapHashOfIssuer(cm) ==
  IF IsSome(cm) THEN Some(Sha256(Val(cm).values.Issuer)) ELSE None

\* a digest of the empty object in place of the missing one
DexConfigMapHashOrEmpty(cm) ==
  IF IsSome(cm) THEN Some(Sha256(Val(cm))) ELSE Some(Sha256(<< >>))

\* the digest of the stored config map, omitted when there is none
DexConfigMapHash(cm) == IF IsSome(cm) THEN Some(Sha256(Val(cm))) ELSE None

\* an expiry that is never read from the stored secret
MtlsSecretExpiryUnread(b) == NoAnnotation

\* the expiry annotation of the stored grpc-mtls secret, "" when there is none
MtlsSecretExpiry(b) == IF IsSome(b) THEN Val(b).annotation ELSE NoAnnotation

\* deployment.yaml: the pod template annotations are rendered only for
\* non-empty values
DeploymentValues(image, hash, expiry, conns) ==
  [DexImage |-> image,
   configHash |-> hash,
   grpcMtlsExpiry |-> IF expiry = NoAnnotation THEN None ELSE Some(expiry),
   AdditionalVolumes |-> AdditionalVolumes(conns)]

SyncDeployment(m) ==
  /\ UNCHANGED side
  /\ pc[m] = "deployment"
  /\ \E cmErr \in BOOLEAN, mtlsErr \in BOOLEAN, applyOk \in BOOLEAN :
       LET imageOk == getDexImagePullSpecOk(dexImage)
           ok == imageOk /\ ~cmErr /\ ~mtlsErr /\ applyOk
           values == DeploymentValues(dexImage,
                                      DexConfigMapHash(derived[RConfigMap(m)]),
                                      MtlsSecretExpiry(mtls),
                                      obj[m].connectors)
       IN  /\ derived' = IF ok THEN Apply(m, RDeployment(m), values) ELSE derived
           /\ Enqueue(OwnerEvents(derived, derived'))
           /\ UNCHANGED << mtls, secrets >>
           /\ Returned(m, rec[m], "deployment", ok, imageOk /\ ~ok)
  /\ UNCHANGED << now, dexImage, dexServers, mtlsWriter, obj, plan, timer,
                  result >>

(***************************************************************************)
(* The end of a pass: updateDexServerStatusConditions and the return.      *)
(***************************************************************************)
UpdateStatus(m) ==
  /\ UNCHANGED side
  /\ pc[m] = "status"
  /\ \E callOk \in BOOLEAN :
       LET merged == mergeStatusConditions(obj[m].conditions, << cond[m] >>, now)
           \* the store rejects the write of an object that is gone or that
           \* was written since it was loaded (conflict)
           statusOk == callOk /\ dexServers[m] = Some(obj[m])
           ret == ReturnOf(cond[m].status = "False", statusOk)
       IN  /\ obj' = [obj EXCEPT ![m].conditions = merged]
           /\ dexServers' =
                IF statusOk
                THEN [dexServers EXCEPT ![m] = Some([Val(@) EXCEPT !.conditions = merged])]
                ELSE dexServers
           /\ result' = [result EXCEPT ![m] = ret]
           /\ queued' = [queued EXCEPT ![m] =
                           \/ @
                           \/ ret = "error"
                           \/ /\ dexServers'[m] # dexServers[m]
                              /\ m \in DexServerEvents(m, "update",
                                                       Val(dexServers[m]),
                                                       Val(dexServers'[m]))]
           /\ timer' = [timer EXCEPT ![m] = @ \/ ret = "requeueAfter"]
           /\ rec' = [rec EXCEPT ![m].fault = @ \/ ~callOk,
                                 ![m].statusOk = statusOk]
           /\ Fault(~callOk)
           /\ stable' = [stable EXCEPT ![m] =
                           /\ statusOk
                           /\ ~rec[m].fault
                           /\ ~rec[m].dirty]
  /\ pc' = [pc EXCEPT ![m] = "idle"]
  /\ UNCHANGED << now, dexImage, secrets, mtls, mtlsWriter, derived, plan,
                  cond >>

\* the RequeueAfter delay has passed
RequeueTimer(m) ==
  /\ UNCHANGED side
  /\ timer[m]
  /\ timer' = [timer EXCEPT ![m] = FALSE]
  /\ queued' = [queued EXCEPT ![m] = TRUE]
  /\ UNCHANGED << now, dexImage, dexServers, secrets, mtls, mtlsWriter,
                  derived, pc, obj, plan, cond, rec, result, stable, budget >>

(***************************************************************************)
(* The environment.                                                        *)
(***************************************************************************)
\* The clock is read by manageMTLSSecret and by the status update only; a
\* tick anywhere else commutes with the steps up to the next reading.
ReadsClock(m) == pc[m] \in {"mtls", "mtlsWrite", "status"}

Tick ==
  /\ UNCHANGED side
  /\ now < MaxTime
  /\ \E m \in Instances : ReadsClock(m)
  /\ now' = now + 1
  /\ UNCHANGED << dexImage, dexServers, secrets, mtls, mtlsWriter, derived, pc,
                  obj, plan, cond, rec, queued, timer, result, stable, budget >>

\* someone edits the expiry annotation of the grpc-mtls secret
TamperedAnnotations == {NoAnnotation, Garbage}

TamperMTLSSecret ==
  /\ UNCHANGED side
  /\ IsSome(mtls)
  /\ \E a \in TamperedAnnotations \ {Val(mtls).annotation} :
       mtls' = Some([Val(mtls) EXCEPT !.annotation = a])
  /\ mtlsWriter' = "external"
  /\ Enqueue(MTLSEvents(mtls, mtls'))
  /\ External
  /\ UNCHANGED << now, dexImage, dexServers, secrets, derived, pc, obj, plan,
                  cond, timer, result >>

CreateCredential(s) ==
  /\ UNCHANGED side
  /\ ~IsSome(secrets[s])
  /\ secrets' = [secrets EXCEPT ![s] = Some(NewCredential(s))]
  /\ Enqueue(SecretEvents("create", UserLabels))
  /\ External
  /\ UNCHANGED << now, dexImage, dexServers, mtls, mtlsWriter, derived, pc,
                  obj, plan, cond, timer, result >>

DeleteCredential(s) ==
  /\ UNCHANGED side
  /\ IsSome(secrets[s])
  /\ secrets' = [secrets EXCEPT ![s] = None]
  /\ Enqueue(SecretEvents("delete", Val(secrets[s]).labels))
  /\ External
  /\ UNCHANGED << now, dexImage, dexServers, mtls, mtlsWriter, derived, pc,
                  obj, plan, cond, timer, result >>

\* the value an external actor rotates the credentials of secret s to
RotatedData(s) ==
  [SecretData(s) EXCEPT !.clientSecret = << s, "clientSecret", "rotated" >>,
                        !.bindPW = << s, "bindPW", "rotated" >>]

\* someone edits the data of a credential secret
UpdateCredential(s) ==
  /\ UNCHANGED side
  /\ IsSome(secrets[s])
  /\ Val(secrets[s]).data # RotatedData(s)
  /\ secrets' = [secrets EXCEPT ![s] = Some([Val(@) EXCEPT !.data = RotatedData(s)])]
  /\ Enqueue(SecretEvents("update", Val(secrets[s]).labels))
  /\ External
  /\ UNCHANGED << now, dexImage, dexServers, mtls, mtlsWriter, derived, pc,
                  obj, plan, cond, timer, result >>

\* what a user can change in a DexServer: the spec (here the issuer), the
\* finalizers, or other metadata (here a label)
DexServerEdits(d) ==
  ({[d EXCEPT !.issuer = BadIssuer],
    [d EXCEPT !.finalizers = {"cleanup"}],
    [d EXCEPT !.labels = {"team"}]}) \ {d}

UpdateDexServer(m) ==
  /\ UNCHANGED side
  /\ IsSome(dexServers[m])
  /\ \E d \in DexServerEdits(Val(dexServers[m])) :
       /\ dexServers' = [dexServers EXCEPT ![m] = Some(d)]
       /\ Enqueue(DexServerEvents(m, "update", Val(dexServers[m]), d))
  /\ External
  /\ UNCHANGED << now, dexImage, secrets, mtls, mtlsWriter, derived, pc, obj,
                  plan, cond, timer, result >>

\* the instance is deleted; the store deletes what it owns
DeleteDexServer(m) ==
  /\ UNCHANGED side
  /\ IsSome(dexServers[m])
  /\ dexServers' = [dexServers EXCEPT ![m] = None]
  /\ derived' = [n \in ResourceNames |->
                   IF IsSome(derived[n]) /\ m \in Owners(Val(derived[n]))
                   THEN None ELSE derived[n]]
  /\ mtls' = IF IsSome(mtls) /\ m \in Owners(Val(mtls)) THEN None ELSE mtls
  /\ mtlsWriter' = IF mtls' = mtls THEN mtlsWriter ELSE "external"
  /\ Enqueue(OwnerEvents(derived, derived') \cup MTLSEvents(mtls, mtls')
               \cup DexServerEvents(m, "delete", Val(dexServers[m]),
                                    Val(dexServers[m])))
  /\ External
  /\ UNCHANGED << now, dexImage, secrets, pc, obj, plan, cond, timer, result >>

(***************************************************************************)
(* The specification.                                                      *)
(***************************************************************************)
Next ==
  \/ \E m \in Instances : Load(m)
  \/ \E m \in Instances : LoadNotFound(m)
  \/ \E m \in Instances : LoadError(m)
  \/ \E m \in Instances : MTLSGet(m)
  \/ \E m \in Instances : MTLSWrite(m)
  \/ \E m \in Instances : SyncConfigMap(m)
  \/ \E m \in Instances : SyncService(m)
  \/ \E m \in Instances : SyncServiceGrpc(m)
  \/ \E m \in Instances : SyncServiceAccount(m)
  \/ \E m \in Instances : SyncClusterRoleBinding(m)
  \/ \E m \in Instances : SyncDeployment(m)
  \/ \E m \in Instances : SyncIngress(m)
  \/ \E m \in Instances : SyncIngressPanic(m)
  \/ Restart
  \/ \E m \in Instances : UpdateStatus(m)
  \/ \E m \in Instances : RequeueTimer(m)
  \/ Tick
  \/ TamperMTLSSecret
  \/ \E s \in SecretNames : CreateCredential(s)
  \/ \E s \in SecretNames : DeleteCredential(s)
  \/ \E s \in SecretNames : UpdateCredential(s)
  \/ \E m \in Instances : UpdateDexServer(m)
  \/ \E m \in Instances : DeleteDexServer(m)

Spec == Init /\ [][Next]_vars

\* The worker runs a request that is queued and runs each pass to its
\* return; a RequeueAfter delay passes.
Pass(m) ==
  \/ Load(m) \/ LoadNotFound(m) \/ MTLSGet(m) \/ MTLSWrite(m)
  \/ SyncConfigMap(m) \/ SyncService(m) \/ SyncServiceGrpc(m)
  \/ SyncServiceAccount(m) \/ SyncClusterRoleBinding(m) \/ SyncDeployment(m)
  \/ SyncIngress(m) \/ SyncIngressPanic(m) \/ UpdateStatus(m)

Fairness ==
  /\ \A m \in Instances : WF_vars(Pass(m)) /\ WF_vars(RequeueTimer(m))
  /\ WF_vars(Restart)

\* The credential step does not look at the connectors: the fair
\* behaviours are explored for instances with one GitHub connector.
LiveInit ==
  /\ Init
  /\ \A m \in Instances :
       IsSome(dexServers[m]) =>
         Val(dexServers[m]).connectors
           = << Connector(ConnectorTypeGitHub, "c1", "s1", "") >>

LiveSpec == LiveInit /\ [][Next]_vars /\ Fairness

\* The controller left to itself: the image reference is set, no call fails,
\* nobody else writes, and neither the hour of the requeue nor the renewal
\* window of the bundle is reached.
QuietInit ==
  /\ InitWith({"d1"}, 0)
  /\ NoSideEffects
  /\ dexImage # ""

QuietNext ==
  \/ \E m \in Instances : Load(m)
  \/ \E m \in Instances : MTLSGet(m)
  \/ \E m \in Instances : MTLSWrite(m)
  \/ \E m \in Instances : SyncConfigMap(m)
  \/ \E m \in Instances : SyncService(m)
  \/ \E m \in Instances : SyncServiceGrpc(m)
  \/ \E m \in Instances : SyncServiceAccount(m)
  \/ \E m \in Instances : SyncClusterRoleBinding(m)
  \/ \E m \in Instances : SyncDeployment(m)
  \/ \E m \in Instances : SyncIngress(m)
  \/ \E m \in Instances : UpdateStatus(m)

QuietSpec ==
  QuietInit /\ [][QuietNext]_vars /\ \A m \in Instances : WF_vars(Pass(m))

\* A worker takes the request of m while another worker may be in the pass
\* of another instance (two controller processes, or a controller built
\* with more than one worker); the queue hands one instance to one worker
\* at a time.
LoadOnWorker(m) ==
  /\ UNCHANGED side
  /\ pc[m] = "idle" /\ queued[m]
  /\ \A j \in Instances : pc[j] # "panic"
  /\ IsSome(dexServers[m])
  /\ queued' = [queued EXCEPT ![m] = FALSE]
  /\ obj' = [obj EXCEPT ![m] = Val(dexServers[m])]
  /\ pc' = [pc EXCEPT ![m] = "mtls"]
  /\ rec' = [rec EXCEPT ![m] = NoPass]
  /\ plan' = [plan EXCEPT ![m] = NoPlan]
  /\ cond' = [cond EXCEPT ![m] = NoCondition]
  /\ result' = [result EXCEPT ![m] = "running"]
  /\ UNCHANGED << now, dexImage, dexServers, secrets, mtls, mtlsWriter,
                  derived, timer, stable, budget >>

\* Two instances of one namespace, no grpc-mtls secret yet, no failing
\* call and no other writer: the passes of the two instances interleave
\* step by step.
WorkersInit ==
  /\ InitWith({"d1", "d2"}, 0)
  /\ NoSideEffects
  /\ dexImage # ""

WorkersNext ==
  \/ \E m \in Instances : LoadOnWorker(m)
  \/ \E m \in Instances : MTLSGet(m)
  \/ \E m \in Instances : MTLSWrite(m)
  \/ \E m \in Instances : SyncConfigMap(m)
  \/ \E m \in Instances : SyncService(m)
  \/ \E m \in Instances : SyncServiceGrpc(m)
  \/ \E m \in Instances : SyncServiceAccount(m)
  \/ \E m \in Instances : SyncClusterRoleBinding(m)
  \/ \E m \in Instances : SyncDeployment(m)
  \/ \E m \in Instances : SyncIngress(m)
  \/ \E m \in Instances : UpdateStatus(m)

WorkersSpec == WorkersInit /\ [][WorkersNext]_vars

\* somebody deletes the grpc-mtls secret
DeleteMTLSSecret ==
  /\ UNCHANGED side
  /\ IsSome(mtls)
  /\ mtls' = None
  /\ mtlsWriter' = "external"
  /\ Enqueue(MTLSEvents(mtls, mtls'))
  /\ External
  /\ UNCHANGED << now, dexImage, dexServers, secrets, derived, pc, obj, plan,
                  cond, timer, result >>

\* One instance, the image reference set, the clock running, and one
\* disturbance: a failing call, or somebody who edits or deletes the
\* grpc-mtls secret, at any point of a pass.
BundleInit ==
  /\ InitWith({"d1"}, MaxDisturbances)
  /\ NoSideEffects
  /\ dexImage # ""

BundleNext ==
  \/ \E m \in Instances : Load(m)
  \/ \E m \in Instances : MTLSGet(m)
  \/ \E m \in Instances : MTLSWrite(m)
  \/ \E m \in Instances : SyncConfigMap(m)
  \/ \E m \in Instances : SyncService(m)
  \/ \E m \in Instances : SyncServiceGrpc(m)
  \/ \E m \in Instances : SyncServiceAccount(m)
  \/ \E m \in Instances : SyncClusterRoleBinding(m)
  \/ \E m \in Instances : SyncDeployment(m)
  \/ \E m \in Instances : SyncIngress(m)
  \/ \E m \in Instances : UpdateStatus(m)
  \/ \E m \in Instances : RequeueTimer(m)
  \/ Tick
  \/ TamperMTLSSecret
  \/ DeleteMTLSSecret

BundleSpec == BundleInit /\ [][BundleNext]_vars

\* Two instances exist: d1 with a github connector on secret s1, d2 with an
\* ldap connector on secret s2.
FleetInit ==
  /\ InitWith({"d1", "d2"}, MaxDisturbances)
  /\ NoSideEffects
  /\ dexImage # ""
  /\ Val(dexServers["d1"]).connectors =
       << Connector(ConnectorTypeGitHub, "c1", "s1", "") >>
  /\ Val(dexServers["d2"]).connectors =
       << Connector(ConnectorTypeLDAP, "c1", "s2", "s1"),
          Connector(ConnectorTypeMicrosoft, "c2", "s2", "") >>

\* The worker's passes, the edits of credential secrets and the clock.
FleetNext ==
  \/ \E m \in Instances : Load(m)
  \/ \E m \in Instances : MTLSGet(m)
  \/ \E m \in Instances : MTLSWrite(m)
  \/ \E m \in Instances : SyncConfigMap(m)
  \/ \E m \in Instances : SyncService(m)
  \/ \E m \in Instances : SyncServiceGrpc(m)
  \/ \E m \in Instances : SyncServiceAccount(m)
  \/ \E m \in Instances : SyncClusterRoleBinding(m)
  \/ \E m \in Instances : SyncDeployment(m)
  \/ \E m \in Instances : SyncIngress(m)
  \/ \E m \in Instances : UpdateStatus(m)
  \/ \E s \in SecretNames : UpdateCredential(s)
  \/ Tick

FleetSpec == FleetInit /\ [][FleetNext]_vars

(***************************************************************************)
(* The watch on owned deployments: ignoreDeploymentRestartPredicate and    *)
(* the update events the store sends for a Deployment.                     *)
(***************************************************************************)
\* values of the kubectl.kubernetes.io/restartedAt annotation
RestartStamps == {"t1", "t2"}

\* a Deployment as the predicate reads it: owner references, generation,
\* and the pod template annotations (restartedAt, and whether there are
\* others)
Deployment(owners, generation, other, restartedAt) ==
  [owners |-> owners, generation |-> generation, other |-> other,
   restartedAt |-> restartedAt]

\* oldPodSpecAnnotations["kubectl.kubernetes.io/restartedAt"]: "" when absent
RestartedAtOf(d) == IF IsSome(d.restartedAt) THEN Val(d.restartedAt) ELSE ""
\* len(oldPodSpecAnnotations)
AnnotationCount(d) ==
  (IF d.other THEN 1 ELSE 0) + (IF IsSome(d.restartedAt) THEN 1 ELSE 0)

\* a restart test that compares the timestamps only when the old template
\* has a restartedAt annotation
IsNewRestartOfRestarted(old, new) ==
  /\ IsSome(new.restartedAt)
  /\ IsSome(old.restartedAt)
  /\ Val(new.restartedAt) # RestartedAtOf(old)

\* lines 930-933: the new template carries a restart timestamp the old one
\* did not carry
IsNewRestart(old, new) ==
  /\ IsSome(new.restartedAt)
  /\ \/ AnnotationCount(old) = 0
     \/ Val(new.restartedAt) # RestartedAtOf(old)

\* any record at all counts as the restart in progress
RecordMatchesAny(record, new) == IsSome(record)

\* a record that matches every later generation too
RecordMatchesFrom(record, new) ==
  IsSome(record) /\ Val(record) <= new.generation

\* lines 915-917: a restart is recorded for the deployment at the
\* generation of the event
RecordMatches(record, new) ==
  IsSome(record) /\ Val(record) = new.generation

\* a predicate that tracks one restart at a time: recording a restart drops
\* the records of the other deployments
ignoreDeploymentRestartPredicateOneRecord(inProgress, n, old, new) ==
  IF Len(old.owners) = 0 THEN [admit |-> FALSE, inProgress |-> inProgress]
  ELSE IF old.owners[1] # "DexServer"
    THEN [admit |-> FALSE, inProgress |-> inProgress]
  ELSE IF RecordMatches(inProgress[n], new)
    THEN [admit |-> FALSE, inProgress |-> inProgress]
  ELSE
    LET cleared == [inProgress EXCEPT ![n] = None]
    IN  IF IsNewRestart(old, new)
        THEN [admit |-> FALSE,
              inProgress |-> [j \in DOMAIN inProgress |->
                                IF j = n THEN Some(new.generation) ELSE None]]
        ELSE [admit |-> TRUE, inProgress |-> cleared]

\* UpdateFunc for the event (old, new) on deployment n with the map
\* inProgress: whether the event is admitted, and the map afterwards
ignoreDeploymentRestartPredicate(inProgress, n, old, new) ==
  IF Len(old.owners) = 0 THEN [admit |-> FALSE, inProgress |-> inProgress]
  ELSE IF old.owners[1] # "DexServer"
    THEN [admit |-> FALSE, inProgress |-> inProgress]
  ELSE IF RecordMatches(inProgress[n], new)
    THEN [admit |-> FALSE, inProgress |-> inProgress]
  ELSE
    LET cleared == [inProgress EXCEPT ![n] = None]
    IN  IF IsNewRestart(old, new)
        THEN [admit |-> FALSE,
              inProgress |-> [cleared EXCEPT ![n] = Some(new.generation)]]
        ELSE [admit |-> TRUE, inProgress |-> cleared]

\* The deployments exist, owned by a DexServer, by something else or by
\* nobody; the process has just started and its map is empty.
RestartInit ==
  /\ InitWith({}, 0)
  /\ dexImage # ""
  /\ \A s \in SecretNames : ~IsSome(secrets[s])
  /\ deployments \in
       [Instances ->
          { Some(Deployment(o, 1, a, None)) :
              o \in {<< >>, << "DexServer" >>, << "ReplicaSet" >>},
              a \in BOOLEAN }]
  /\ deployments["d1"] = Some(Deployment(<< "DexServer" >>, 1, TRUE, None))
  /\ restartsInProgress = [n \in Instances |-> None]
  /\ eventLog = << >>
  /\ mergeArgs = << >>

\* what an update can do to the template's restartedAt annotation
RestartedAtAfter(d) ==
  {d.restartedAt, None} \cup { Some(t) : t \in RestartStamps }

\* The store sends an update event for deployment n: its old and its new
\* object.  The generation grows when the spec (the pod template) changed
\* and may stay when only status or metadata did.
DeploymentUpdate(n) ==
  /\ Len(eventLog) < MaxEvents
  /\ IsSome(deployments[n])
  /\ LET old == Val(deployments[n])
     IN  \E r \in RestartedAtAfter(old), bump \in {0, 1} :
           LET new == [old EXCEPT !.restartedAt = r,
                                  !.generation = @ + bump]
               p == ignoreDeploymentRestartPredicate(restartsInProgress, n,
                                                     old, new)
           IN  /\ r # old.restartedAt => bump = 1
               /\ deployments' = [deployments EXCEPT ![n] = Some(new)]
               /\ restartsInProgress' = p.inProgress
               /\ eventLog' =
                    Append(eventLog,
                           [name |-> n, old |-> old, new |-> new,
                            admit |-> p.admit,
                            before |-> restartsInProgress[n],
                            after |-> p.inProgress[n]])
  /\ UNCHANGED << now, dexImage, dexServers, secrets, mtls, mtlsWriter,
                  derived, pc, obj, plan, cond, rec, queued, timer, result,
                  stable, budget, mergeArgs >>

RestartNext == \E n \in Instances : DeploymentUpdate(n)

RestartSpec == RestartInit /\ [][RestartNext]_vars

(***************************************************************************)
(* updateDexServerStatusConditions on its own: merges of arbitrary         *)
(* conditions into the stored status of d1.                                *)
(***************************************************************************)
\* a second condition type, for a condition some other writer keeps
ConditionTypeReady == "Ready"

TypedCondition(type, status, reason, message) ==
  [type |-> type, status |-> status, reason |-> reason, message |-> message]

\* the conditions a caller can hand to the merge
CondUpdates ==
  { TypedCondition(DexServerConditionTypeApplied, "True", "Applied", "m1"),
    TypedCondition(DexServerConditionTypeApplied, "False", "Applied", "m1"),
    TypedCondition(DexServerConditionTypeApplied, "False", "Failed", "m1"),
    TypedCondition(DexServerConditionTypeApplied, "False", "Applied", "m2"),
    TypedCondition(ConditionTypeReady, "True", "Up", "m1"),
    TypedCondition(ConditionTypeReady, "False", "Down", "m2") }

\* newConditions ...metav1.Condition: one or two of them
CondUpdateLists ==
  { << u >> : u \in CondUpdates } \cup (CondUpdates \X CondUpdates)

\* d1 exists with no condition stored
MergeInit ==
  /\ InitWith({"d1"}, 0)
  /\ NoSideEffects
  /\ dexImage # ""
  /\ \A s \in SecretNames : ~IsSome(secrets[s])
  /\ Val(dexServers["d1"]).connectors =
       << Connector(ConnectorTypeGitHub, "c1", "s1", "") >>

\* updateDexServerStatusConditions(c, dexServer, newConditions...) with a
\* fresh object and a Status().Update that succeeds
MergeConditions(m) ==
  /\ IsSome(dexServers[m])
  /\ \E upd \in CondUpdateLists :
       /\ mergeArgs' = upd
       /\ dexServers' =
            [dexServers EXCEPT ![m] =
               Some([Val(@) EXCEPT !.conditions =
                       mergeStatusConditions(@, upd, now)])]
  /\ UNCHANGED << now, dexImage, secrets, mtls, mtlsWriter, derived, pc, obj,
                  plan, cond, rec, queued, timer, result, stable, budget,
                  deployments, restartsInProgress, eventLog >>

\* time passes between two merges
MergeTick ==
  /\ now < MaxTime
  /\ now' = now + 1
  /\ UNCHANGED << dexImage, dexServers, secrets, mtls, mtlsWriter, derived, pc,
                  obj, plan, cond, rec, queued, timer, result, stable, budget,
                  side >>

MergeNext ==
  \/ \E m \in Instances : MergeConditions(m)
  \/ MergeTick

MergeSpec == MergeInit /\ [][MergeNext]_vars

(***************************************************************************)
(* Properties of one convergence pass.                                     *)
(***************************************************************************)
\* the step the pass of m is in, when it is in one
StepAt(m) == IF pc[m] = "mtlsWrite" THEN "mtls" ELSE pc[m]
InStep(m) == StepAt(m) \in { Steps[k] : k \in 1 .. Len(Steps) }
\* the pass of m has left the steps: it is at its status update, or over
LeftSteps(m) == pc[m] \in {"status", "idle"} /\ rec[m].trace # << >>
PassOver(m) == pc[m] = "idle" /\ rec[m].trace # << >>
LastOf(trace) == trace[Len(trace)]

\* C1: the steps a pass has run are the first steps of the fixed order, each
\* run once, every one but the last run with success; the step in progress
\* is the one that follows them.
C1_StepOrder ==
  \A m \in Instances :
    LET trace == rec[m].trace
    IN  /\ Len(trace) <= 8
        /\ \A k \in 1 .. Len(trace) :
             /\ trace[k].step =
                  << "mtls", "configmap", "service", "grpc", "serviceaccount",
                     "clusterrolebinding", "deployment", "ingress" >>[k]
             /\ k < Len(trace) => trace[k].ok
        /\ InStep(m) =>
             /\ Len(trace) = IndexOf(StepAt(m)) - 1
             /\ \A k \in 1 .. Len(trace) : trace[k].ok

C1_Witness ==
  \E m \in Instances :
    /\ pc[m] = "status"
    /\ Len(rec[m].trace) = 8
    /\ ~LastOf(rec[m].trace).ok

\* the reason codes of C2, by position of the step
C2_Reasons ==
  << "ConfigMTLSSecretFailed", "ConfigMapFailed", "ConfigHTTPServiceFailed",
     "ConfigGRPCServiceFailed", "ConfigServiceAccountFailed",
     "ConfigClusterRoleBindingFailed", "ConfigDeploymentFailed",
     "ConfigIngressFailed" >>

AppliedOf(conds) ==
  { [status |-> conds[k].status, reason |-> conds[k].reason] :
      k \in { l \in 1 .. Len(conds) : conds[l].type = "Applied" } }

\* C2: once a step has failed, the pass runs no further step, the condition
\* it records is Applied = False with the reason of that step, it returns
\* an error and not the requeue, and a status write that succeeds stores
\* exactly that condition.
C2_FailedStep ==
  \A m \in Instances :
    LET trace == rec[m].trace
    IN  (trace # << >> /\ ~LastOf(trace).ok) =>
          /\ pc[m] \in {"status", "idle"}
          /\ cond[m].type = "Applied"
          /\ cond[m].status = "False"
          /\ cond[m].reason = C2_Reasons[Len(trace)]
          /\ pc[m] = "idle" =>
               /\ result[m] = "error"
               /\ queued[m]
               /\ (rec[m].statusOk /\ IsSome(dexServers[m])) =>
                    AppliedOf(Val(dexServers[m]).conditions)
                      = {[status |-> "False", reason |-> C2_Reasons[Len(trace)]]}

C2_Witness ==
  \E m \in Instances :
    /\ PassOver(m)
    /\ Len(rec[m].trace) = 3
    /\ ~LastOf(rec[m].trace).ok
    /\ rec[m].statusOk

AllEightOk(trace) == Len(trace) = 8 /\ \A k \in 1 .. 8 : trace[k].ok

\* C3: the condition a pass records is Applied = True with reason Applied
\* exactly when all eight steps returned success, and the pass returns the
\* requeue (and no error) exactly when, besides, its status write succeeded.
C3_AppliedIffAllSteps ==
  \A m \in Instances :
    LeftSteps(m) =>
      /\ (cond[m].status = "True") <=> AllEightOk(rec[m].trace)
      /\ cond[m].status = "True" => (cond[m].type = "Applied" /\ cond[m].reason = "Applied")
      /\ pc[m] = "idle" =>
           /\ (result[m] = "requeueAfter")
                <=> (AllEightOk(rec[m].trace) /\ rec[m].statusOk)
           /\ result[m] = "requeueAfter" => (timer[m] \/ queued[m])
           /\ result[m] # "requeueAfter" => result[m] = "error"
           /\ (rec[m].statusOk /\ IsSome(dexServers[m])) =>
                AppliedOf(Val(dexServers[m]).conditions)
                  = {[status |-> cond[m].status, reason |-> cond[m].reason]}

C3_Witness ==
  \E m \in Instances :
    /\ PassOver(m)
    /\ AllEightOk(rec[m].trace)
    /\ result[m] = "requeueAfter"
    /\ timer[m]

(***************************************************************************)
(* Properties of the end-to-end scenarios.                                 *)
(***************************************************************************)
\* the pass of m is over, every call it made succeeded and nobody else
\* changed the cluster while it ran or since
QuietPassOver(m) == PassOver(m) /\ ~rec[m].fault /\ ~rec[m].dirty

RanStep(m, step) == \E k \in 1 .. Len(rec[m].trace) : rec[m].trace[k].step = step

\* C4: in a process that has its image reference, a pass for an instance
\* with a connector whose credential secret does not exist ends with
\* Applied = False, reason ConfigMapFailed, and does not run the deployment
\* step: no deployment is created.
C4_MissingSecretFailsConfigMap ==
  \A m \in Instances :
    ( /\ dexImage # ""
      /\ QuietPassOver(m)
      /\ \E k \in 1 .. Len(obj[m].connectors) :
           ~IsSome(secrets[obj[m].connectors[k].secretRef]) )
    => /\ cond[m].type = "Applied"
       /\ cond[m].status = "False"
       /\ cond[m].reason = "ConfigMapFailed"
       /\ ~RanStep(m, "deployment")
       /\ ~IsSome(derived[RDeployment(m)])

AllFieldsNonEmpty(b) == \A f \in DOMAIN Val(b).data : Val(b).data[f] # << >>

\* C5: for an instance whose connectors all have a known type and whose
\* referenced secrets all exist, a pass in which every call succeeds leaves
\* the mTLS bundle with all its fields non-empty and a config map with one
\* entry per connector, in order, carrying the connector's id and the value
\* stored in its secret, and ends with Applied = True.
C5_HappyPath ==
  \A m \in Instances :
    LET conns == obj[m].connectors
    IN  ( /\ QuietPassOver(m)
          /\ \A k \in 1 .. Len(conns) :
               /\ conns[k].type \in {"github", "microsoft", "ldap"}
               /\ IsSome(secrets[conns[k].secretRef])
               /\ conns[k].rootCARef # "" => IsSome(secrets[conns[k].rootCARef]) )
        => /\ IsSome(mtls)
           /\ AllFieldsNonEmpty(mtls)
           /\ IsSome(derived[RConfigMap(m)])
           /\ LET entries == Val(derived[RConfigMap(m)]).values.ConnectorsYaml
              IN  /\ Len(entries) = Len(conns)
                  /\ \A k \in 1 .. Len(conns) :
                       /\ entries[k].id = conns[k].id
                       /\ entries[k].secret # << >>
                       /\ entries[k].secret =
                            Val(secrets[conns[k].secretRef]).data[
                              IF conns[k].type = "ldap" THEN "bindPW"
                              ELSE "clientSecret"]
           /\ cond[m].type = "Applied"
           /\ cond[m].status = "True"

\* C5 holds in every pass of a process whose RELATED_IMAGE_DEX is set: its
\* only failures are deployment steps that find no image.
C5_HappyPathWithImage == dexImage # "" => C5_HappyPath

C5_HappyPathWithImageWitness ==
  \E m \in Instances :
    /\ dexImage # ""
    /\ QuietPassOver(m)
    /\ Len(obj[m].connectors) = 2
    /\ obj[m].connectors[2].type = "microsoft"
    /\ IsSome(secrets["s1"]) /\ IsSome(secrets["s2"])

(***************************************************************************)
(* Properties of the mutual-TLS bundle.                                    *)
(***************************************************************************)
\* the stored bundle carries an expiry that parses and the clock is outside
\* (inside) the renewal window of that expiry
OutsideRenewalWindow ==
  /\ IsSome(mtls)
  /\ Val(mtls).annotation.kind = "rfc3339"
  /\ now < Val(mtls).annotation.t - CertRenewalWindow
InRenewalWindow ==
  /\ IsSome(mtls)
  /\ Val(mtls).annotation.kind = "rfc3339"
  /\ now >= Val(mtls).annotation.t - CertRenewalWindow

\* C6: when a pass has returned with every call succeeding (whether or not
\* all its steps did) and nothing has changed since, no step of the next pass of that instance whose calls
\* succeed and that reads the clock outside the renewal window writes: it
\* does not go on to generate a bundle, and the bundle, the credential
\* secrets and the derived resources stay as they are.
C6_SecondPassWritesNothing ==
  [][\A m \in Instances :
       ( /\ stable[m]
         /\ pc[m] \notin {"idle", "mtlsWrite"}
         /\ pc'[m] # pc[m]
         /\ budget' = budget
         /\ pc[m] = "mtls" => OutsideRenewalWindow )
       => /\ pc'[m] # "mtlsWrite"
          /\ mtls' = mtls
          /\ secrets' = secrets
          /\ derived' = derived]_vars

C6_Witness ==
  \E m \in Instances :
    /\ stable[m]
    /\ pc[m] = "status"
    /\ AllEightOk(rec[m].trace)
    /\ OutsideRenewalWindow
    /\ \E s \in SecretNames :
         IsSome(secrets[s]) /\ IDP_CREDENTIAL_LABEL \in Val(secrets[s]).labels

\* what the credential step has to do for bundle b at time t
BundleVerdict(b, t) ==
  IF ~IsSome(b) THEN "create"
  ELSE IF Val(b).annotation.kind # "rfc3339" THEN "update"
  ELSE IF t >= Val(b).annotation.t - CertRenewalWindow THEN "update"
  ELSE "none"

\* C7: the read of the credential step writes nothing and ends in one of
\* three ways: the lookup failed and the step fails with
\* ConfigMTLSSecretFailed; the bundle is present with an expiry that parses
\* and lies beyond the renewal window, and the step is over; the bundle is
\* absent (create), or its annotation is missing or does not parse, or the
\* clock is inside the window (update), and the step goes on to generate.
\* The write that follows either fails and leaves the bundle alone or
\* stores a freshly generated bundle.
C7_Decision ==
  [][\A m \in Instances :
       /\ (pc[m] = "mtls" /\ pc'[m] # "mtls") =>
            /\ mtls' = mtls
            /\ \/ /\ pc'[m] = "status"
                  /\ cond'[m].status = "False"
                  /\ cond'[m].reason = "ConfigMTLSSecretFailed"
                  /\ budget' < budget
               \/ /\ BundleVerdict(mtls, now) = "none"
                  /\ pc'[m] = "configmap"
               \/ /\ BundleVerdict(mtls, now) \in {"create", "update"}
                  /\ pc'[m] = "mtlsWrite"
                  /\ mtlsOp(plan'[m]) = BundleVerdict(mtls, now)
       /\ (pc[m] = "mtlsWrite" /\ pc'[m] # "mtlsWrite") =>
            \/ /\ mtls' = mtls
               /\ pc'[m] = "status"
               /\ cond'[m].reason = "ConfigMTLSSecretFailed"
            \/ /\ pc'[m] = "configmap"
               /\ IsSome(mtls')
               /\ Val(mtls').annotation = [kind |-> "rfc3339", t |-> now + CertValidity]
               /\ ChainsOf(mtls') \cap ChainsOf(mtls) = {}
               /\ (mtlsOp(plan[m]) = "update") = IsSome(mtls)]_vars

C7_Witness ==
  \E m \in Instances :
    /\ pc[m] = "mtlsWrite"
    /\ mtlsOp(plan[m]) = "update"
    /\ IsSome(mtls)
    /\ Val(mtls).annotation.kind = "garbage"

AnnotationMatchesCerts(b) ==
  /\ IsSome(b)
  /\ Val(b).annotation.kind = "rfc3339"
  /\ \A f \in {"tls_crt", "client_crt"} :
       /\ Val(b).data[f] # << >>
       /\ \A k \in 1 .. Len(Val(b).data[f]) :
            Val(b).data[f][k].notAfter = Val(b).annotation.t

\* C9: whenever the controller was the last to write the bundle, the
\* bundle's annotation is an RFC3339 timestamp equal to the NotAfter of the
\* certificates stored with it; and a write of the controller that changes
\* the bundle stores new certificate data with the annotation.
C9_AnnotationIsExpiry ==
  [][ mtlsWriter' = "controller" =>
        /\ AnnotationMatchesCerts(mtls')
        /\ (mtls' # mtls /\ IsSome(mtls)) =>
             Val(mtls').data # Val(mtls).data ]_vars

C9_Witness ==
  /\ mtlsWriter = "controller"
  /\ IsSome(mtls)
  /\ Val(mtls).annotation.t = MaxTime + CertValidity
  /\ \E m \in Instances : pc[m] = "configmap" /\ plan[m].regenerate

BundleFields == {"ca_crt", "ca_key", "tls_crt", "tls_key", "client_crt", "client_key"}

\* all blocks of bundle b come from chain c
FromOneChain(b, c) ==
  /\ DOMAIN Val(b).data = BundleFields
  /\ \A f \in BundleFields :
       /\ Val(b).data[f] # << >>
       /\ \A k \in 1 .. Len(Val(b).data[f]) : Val(b).data[f][k].chain = c

\* C10: only the write of the credential step changes the bundle; when it
\* does, every entry of the new bundle comes from one chain of which the
\* old bundle holds nothing, and a bundle that existed is replaced by an
\* update: it is at no point absent.
C10_WholeChainInOneWrite ==
  [][\A m \in Instances :
       (pc'[m] # pc[m] /\ mtls' # mtls) =>
         /\ pc[m] = "mtlsWrite"
         /\ IsSome(mtls')
         /\ \E c \in ChainIds \ ChainsOf(mtls) : FromOneChain(mtls', c)
         /\ IsSome(mtls) => mtlsOp(plan[m]) = "update"
         /\ ~IsSome(mtls) => mtlsOp(plan[m]) = "create"]_vars

C10_Witness ==
  \E m \in Instances :
    /\ pc[m] = "configmap"
    /\ mtlsOp(plan[m]) = "update"
    /\ mtlsWriter = "controller"
    /\ IsSome(mtls)
    /\ FromOneChain(mtls, 2)

(***************************************************************************)
(* Properties of the watches.                                              *)
(***************************************************************************)
\* C11: an instance that exists when the process starts is queued (its
\* create event is admitted); a write that changes the finalizers or the
\* spec of an instance queues it; and a write that changes nothing but its
\* status or other metadata, the controller's own status write included,
\* leaves the queue as it is, unless the pass that wrote is returning an
\* error.
C11_SpecChangePredicate ==
  /\ \A m \in Instances : IsSome(dexServers[m]) => queued[m]
  /\ [][\A m \in Instances :
          ( /\ IsSome(dexServers[m])
            /\ IsSome(dexServers'[m])
            /\ dexServers'[m] # dexServers[m] )
          => LET old == Val(dexServers[m])
                 new == Val(dexServers'[m])
                 changed == \/ old.finalizers # new.finalizers
                            \/ old.connectors # new.connectors
                            \/ old.issuer # new.issuer
             IN  /\ changed => queued'[m]
                 /\ (~changed /\ result'[m] # "error") =>
                      queued' = queued]_vars

\* the controller wrote the status of an instance that is not queued
C11_Witness ==
  \E m \in Instances :
    /\ PassOver(m)
    /\ rec[m].statusOk
    /\ IsSome(dexServers[m])
    /\ AppliedOf(Val(dexServers[m]).conditions) # {}
    /\ Val(dexServers[m]).labels = {"team"}
    /\ ~queued[m]

(***************************************************************************)
(* Properties of the deployment watch (specification RestartSpec).         *)
(***************************************************************************)
\* the update events seen so far on deployments owned by a DexServer
OwnedEvents ==
  { i \in 1..Len(eventLog) : eventLog[i].old.owners = << "DexServer" >> }

\* the event's new template carries a restart timestamp that its old
\* template did not carry
NewStampDiffers(e) ==
  IsSome(e.new.restartedAt) /\ e.new.restartedAt # e.old.restartedAt

\* C12: for every update event on an owned deployment: when the new restart
\* timestamp differs from the old one, the event is suppressed and the new
\* generation is the one recorded as in progress for the deployment;
\* otherwise, when the event's generation equals the recorded one, the
\* event is suppressed and the record stays; otherwise, when a record
\* exists (for a different generation), the record is cleared and the event
\* is admitted.
C12_RestartPredicateCases ==
  \A i \in OwnedEvents :
    LET e == eventLog[i]
    IN  /\ NewStampDiffers(e) =>
             /\ ~e.admit
             /\ e.after = Some(e.new.generation)
        /\ (~NewStampDiffers(e) /\ e.before = Some(e.new.generation)) =>
             /\ ~e.admit
             /\ e.after = e.before
        /\ ( /\ ~NewStampDiffers(e)
             /\ IsSome(e.before)
             /\ e.before # Some(e.new.generation) ) =>
             /\ e.admit
             /\ e.after = None

\* a restart was recorded, a later event of the same generation was
\* suppressed, and the event of the next generation was admitted and
\* cleared the record
C12_Witness ==
  \E i, j, k \in OwnedEvents :
    /\ i < j /\ j < k
    /\ eventLog[i].name = eventLog[j].name
    /\ eventLog[j].name = eventLog[k].name
    /\ NewStampDiffers(eventLog[i])
    /\ ~eventLog[i].old.other /\ eventLog[i].old.restartedAt = None
    /\ ~NewStampDiffers(eventLog[j])
    /\ eventLog[j].before = Some(eventLog[j].new.generation)
    /\ ~eventLog[j].admit
    /\ ~NewStampDiffers(eventLog[k])
    /\ IsSome(eventLog[k].before)
    /\ eventLog[k].admit /\ eventLog[k].after = None

\* the events after event i and up to event j on the deployment of event i
EventsAfter(i, j) ==
  { k \in (i + 1)..j : eventLog[k].name = eventLog[i].name }

\* events i < j on one deployment: event i brings a new restart timestamp,
\* and every later event up to j carries that timestamp, old and new
SameRestart(i, j) ==
  /\ i < j
  /\ eventLog[j].name = eventLog[i].name
  /\ NewStampDiffers(eventLog[i])
  /\ \A k \in EventsAfter(i, j) :
       /\ eventLog[k].new.restartedAt = eventLog[i].new.restartedAt
       /\ eventLog[k].old.restartedAt = eventLog[i].new.restartedAt

\* C13: in a sequence of update events on one owned deployment that carry
\* the same new restart timestamp, the event that brings the timestamp and
\* every following event of the recorded generation are suppressed; the
\* first event of another generation is admitted and leaves no record for
\* the deployment.
C13_SuppressedUntilNextGeneration ==
  \A i, j \in OwnedEvents :
    ( /\ SameRestart(i, j)
      /\ \A k \in EventsAfter(i, j) \ {j} :
           eventLog[k].new.generation = eventLog[i].new.generation )
    => /\ ~eventLog[i].admit
       /\ eventLog[j].before = Some(eventLog[i].new.generation)
       /\ IF eventLog[j].new.generation = eventLog[i].new.generation
          THEN ~eventLog[j].admit /\ eventLog[j].after = eventLog[j].before
          ELSE eventLog[j].admit /\ eventLog[j].after = None

\* a restart, two suppressed events of its generation, then the admitted
\* event of the next generation, after which the map has no record
C13_Witness ==
  \E i, j \in OwnedEvents :
    /\ SameRestart(i, j)
    /\ j = Len(eventLog)
    /\ Cardinality(EventsAfter(i, j)) = 3
    /\ \A k \in EventsAfter(i, j) \ {j} :
         /\ eventLog[k].new.generation = eventLog[i].new.generation
         /\ ~eventLog[k].admit
    /\ eventLog[j].new.generation # eventLog[i].new.generation
    /\ eventLog[j].admit
    /\ restartsInProgress[eventLog[i].name] = None

\* C28: an event on an owned deployment that raises the generation and
\* leaves the restart timestamp as it was is admitted, whatever the map
\* held for the deployment before it.
C28_DriftIsAdmitted ==
  \A i \in OwnedEvents :
    LET e == eventLog[i]
    IN  ( /\ e.new.generation > e.old.generation
          /\ e.new.restartedAt = e.old.restartedAt )
        => e.admit

\* after a restart was recorded, and with its record still in the map, an
\* event that raises the generation and keeps the timestamp was admitted
C28_Witness ==
  \E i, j \in OwnedEvents :
    /\ i < j
    /\ eventLog[i].name = eventLog[j].name
    /\ NewStampDiffers(eventLog[i])
    /\ IsSome(eventLog[j].before)
    /\ eventLog[j].new.generation > eventLog[j].old.generation
    /\ eventLog[j].new.restartedAt = eventLog[j].old.restartedAt
    /\ eventLog[j].admit

\* the event the step delivered
LastEvent == eventLog'[Len(eventLog')]

\* lines 909-913: the old object has no owner reference, or its first owner
\* is not a DexServer
NotOwned(d) == Len(d.owners) = 0 \/ d.owners[1] # "DexServer"

\* C29: an update event for one deployment leaves the map entries of all
\* other deployments as they were; an event suppressed because its
\* generation is the recorded one, and an admitted event that found no
\* record, leave the whole map as it was; an event whose old object has no
\* owner reference, or a first owner that is not a DexServer, is suppressed
\* and leaves the whole map as it was.
C29_MapChangeIsLocal ==
  [][eventLog' # eventLog =>
       LET e == LastEvent
       IN  /\ \A n \in Instances \ {e.name} :
                restartsInProgress'[n] = restartsInProgress[n]
           /\ (~e.admit /\ e.before = Some(e.new.generation)) =>
                restartsInProgress' = restartsInProgress
           /\ (e.admit /\ e.before = None) =>
                restartsInProgress' = restartsInProgress
           /\ NotOwned(e.old) =>
                /\ ~e.admit
                /\ restartsInProgress' = restartsInProgress]_vars

\* both deployments have a restart on record, and an event with the
\* recorded generation was suppressed while the other record stood
C29_Witness ==
  /\ \A n \in Instances : IsSome(restartsInProgress[n])
  /\ \E i \in OwnedEvents :
       /\ ~eventLog[i].admit
       /\ eventLog[i].before = Some(eventLog[i].new.generation)
       /\ i = Len(eventLog)

EventLabels(s) ==
  IF IsSome(secrets'[s]) THEN Val(secrets'[s]).labels
  ELSE Val(secrets[s]).labels

\* C15: no event on a secret that does not carry the idp-credential label
\* (its creation, its update or its deletion) queues a request.
C15_UnlabelledSecretQueuesNothing ==
  [][\A s \in SecretNames :
       ( /\ secrets'[s] # secrets[s]
         /\ IDP_CREDENTIAL_LABEL \notin EventLabels(s) )
       => \A m \in Instances : queued'[m] => queued[m]]_vars

(***************************************************************************)
(* Properties of the status merge (specification MergeSpec).               *)
(***************************************************************************)
\* the positions of the records of a type
RecordsOf(conds, type) == { k \in 1 .. Len(conds) : conds[k].type = type }
TypesOf(conds) == { conds[k].type : k \in 1 .. Len(conds) }

AtMostOnePerType(conds) ==
  \A type \in TypesOf(conds) : Cardinality(RecordsOf(conds, type)) = 1

\* the last update of each type in a list of updates
LastOfType(upd, k) == \A l \in (k + 1) .. Len(upd) : upd[l].type # upd[k].type

\* a step of MergeSpec that is a merge into the status of m (a merge that
\* repeats the last one and changes nothing is a stuttering step)
Merged(m) == mergeArgs' # mergeArgs \/ dexServers'[m] # dexServers[m]

\* C16: the stored status of an instance holds at most one condition per
\* type, whatever was merged into it; after a merge, each type of the
\* updates has one record, carrying the status and the reason of the
\* (last) update of that type, and every type stored before is still there.
C16_OneRecordPerType ==
  /\ [](\A m \in Instances :
          IsSome(dexServers[m]) =>
            AtMostOnePerType(Val(dexServers[m]).conditions))
  /\ [][\A m \in Instances :
          (IsSome(dexServers[m]) /\ Merged(m)) =>
            LET old == Val(dexServers[m]).conditions
                new == Val(dexServers'[m]).conditions
            IN  /\ TypesOf(new) = TypesOf(old) \cup TypesOf(mergeArgs')
                /\ \A k \in 1 .. Len(mergeArgs') :
                     LastOfType(mergeArgs', k) =>
                       \A j \in RecordsOf(new, mergeArgs'[k].type) :
                         /\ new[j].status = mergeArgs'[k].status
                         /\ new[j].reason = mergeArgs'[k].reason]_vars

\* an Applied record was stored, a record of the other type was appended,
\* and then an update of status False and another reason was merged into
\* the Applied record, which kept its place
C16_Witness ==
  /\ IsSome(dexServers["d1"])
  /\ LET conds == Val(dexServers["d1"]).conditions
     IN  /\ Len(conds) = 2
         /\ TypesOf(conds) = {DexServerConditionTypeApplied, ConditionTypeReady}
         /\ conds[1].type = DexServerConditionTypeApplied
         /\ conds[1].status = "False" /\ conds[1].reason = "Failed"
         /\ conds[1].lastTransitionTime > conds[2].lastTransitionTime
  /\ mergeArgs =
       << TypedCondition(DexServerConditionTypeApplied, "False", "Failed", "m1") >>

\* the update and the stored record agree on status, reason and message
SameContent(u, r) ==
  u.status = r.status /\ u.reason = r.reason /\ u.message = r.message

\* C17: a merge keeps every stored record at its position and with its
\* type; a record whose type is not among the updates is unchanged; a record
\* whose type is among the updates is unchanged, last-transition time
\* included, when the updates of its type agree with it on status, reason
\* and message, and otherwise takes the content of the last update of its
\* type; the updates of types not stored are appended, one record per type.
C17_MergeFrame ==
  [][\A m \in Instances :
       (IsSome(dexServers[m]) /\ Merged(m)) =>
         LET old == Val(dexServers[m]).conditions
             new == Val(dexServers'[m]).conditions
             upd == mergeArgs'
             fresh == TypesOf(upd) \ TypesOf(old)
         IN  /\ Len(new) = Len(old) + Cardinality(fresh)
             /\ { new[k].type : k \in (Len(old) + 1) .. Len(new) } = fresh
             /\ \A k \in 1 .. Len(old) :
                  /\ new[k].type = old[k].type
                  /\ old[k].type \notin TypesOf(upd) => new[k] = old[k]
                  /\ (\A j \in RecordsOf(upd, old[k].type) :
                        SameContent(upd[j], old[k])) => new[k] = old[k]
                  /\ \A j \in RecordsOf(upd, old[k].type) :
                       LastOfType(upd, j) => SameContent(upd[j], new[k])]_vars

\* the last merge met a stored Ready record its updates did not name, an
\* Applied record equal in content to its first update and older than the
\* merge, and left both as they were
C17_Witness ==
  /\ IsSome(dexServers["d1"])
  /\ LET conds == Val(dexServers["d1"]).conditions
     IN  /\ Len(conds) = 2
         /\ conds[1].type = ConditionTypeReady
         /\ conds[2].type = DexServerConditionTypeApplied
         /\ mergeArgs =
              << TypedCondition(DexServerConditionTypeApplied, "False",
                                "Applied", "m2") >>
         /\ SameContent(mergeArgs[1], conds[2])
         /\ conds[2].lastTransitionTime < now
         /\ conds[1].lastTransitionTime < conds[2].lastTransitionTime
         /\ now = MaxTime

(***************************************************************************)
(* Properties of the credential secrets.                                   *)
(***************************************************************************)
\* the secrets the connectors of known types refer to: the credential and,
\* for LDAP, the root CA
ReferencedSecrets(conns) ==
  { conns[k].secretRef : k \in { i \in 1 .. Len(conns) :
                                   conns[i].type \in KnownTypes } }
  \cup { conns[k].rootCARef : k \in { i \in 1 .. Len(conns) :
                                        /\ conns[i].type = ConnectorTypeLDAP
                                        /\ conns[i].rootCARef # "" } }

\* C18: after a pass that met no failure and no interference and that read
\* every secret its connectors refer to, each of these secrets carries the
\* idp-credential label.
C18_ReferencedSecretsLabelled ==
  \A m \in Instances :
    ( /\ QuietPassOver(m)
      /\ AllEightOk(rec[m].trace)
      /\ \A s \in ReferencedSecrets(obj[m].connectors) : IsSome(secrets[s]) )
    => \A s \in ReferencedSecrets(obj[m].connectors) :
         IDP_CREDENTIAL_LABEL \in Val(secrets[s]).labels

(***************************************************************************)
(* Properties of the errors of a pass.                                     *)
(***************************************************************************)
\* C19: whatever the instance holds, the ingress step returns to Reconcile,
\* which goes on to record a condition; for an issuer that cannot be
\* parsed the condition is Applied = False with reason ConfigIngressFailed.
C19_IngressStepReturns ==
  [][\A m \in Instances :
       (pc[m] = "ingress" /\ pc'[m] # "ingress") =>
         /\ pc'[m] = "status"
         /\ ~IsSome(ParseURL(obj[m].issuer)) =>
              cond'[m] = FailedCondition("ingress")]_vars

\* C20: the config map of an instance never holds a connector entry whose
\* credential is empty: a read of the secret that fails makes the step fail
\* before anything is applied.
C20_NoEmptyCredentialApplied ==
  \A m \in Instances :
    IsSome(derived[RConfigMap(m)]) =>
      LET yaml == Val(derived[RConfigMap(m)]).values.ConnectorsYaml
      IN  \A k \in 1 .. Len(yaml) : yaml[k].secret # << >>

(***************************************************************************)
(* Properties of the controller left to itself (specification QuietSpec).  *)
(***************************************************************************)
\* nothing is running or queued; the instances that exist wait for the
\* requeue their last pass asked for
Quiescent ==
  \A m \in Instances :
    /\ pc[m] = "idle"
    /\ ~queued[m]
    /\ IsSome(dexServers[m]) => (timer[m] /\ result[m] = "requeueAfter")

Stepping(m) == pc'[m] # pc[m] /\ pc[m] # "idle"

C24_UnknownConnectorFailsConfigMap ==
  \A m \in Instances :
    ( /\ PassOver(m)
      /\ ~rec[m].fault
      /\ dexImage # ""
      /\ RanStep(m, "configmap")
      /\ \E k \in 1 .. Len(obj[m].connectors) :
           obj[m].connectors[k].type \notin KnownTypes )
    => /\ cond[m] = FailedCondition("configmap")
       /\ ~RanStep(m, "service")

(***************************************************************************)
(* Properties of the deployment step.                                      *)
(***************************************************************************)
\* C23: while the image reference is absent, no pass writes the bundle or
\* applies a derived resource.
C23_NoImageNoWrites ==
  dexImage = "" =>
    /\ mtls = None
    /\ \A n \in ResourceNames : derived[n] = None

\* what a credential secret can hold when the config step reads it
CredentialStates(s) ==
  { Some(NewCredential(s)),
    Some([NewCredential(s) EXCEPT !.data = RotatedData(s)]) }

\* the connector entries the config step can build
ConnectorEntries ==
  { connectorLoop(conns, 1, secs, << >>, FALSE,
                  [k \in 1 .. Len(conns) |-> e], [k \in 1 .. Len(conns) |-> TRUE],
                  [k \in 1 .. Len(conns) |-> FALSE]).connectors :
      conns \in ConnectorChoices,
      secs \in { f \in [SecretNames -> UNION { CredentialStates(s) :
                                                  s \in SecretNames }] :
                   \A s \in SecretNames : f[s] \in CredentialStates(s) },
      e \in BOOLEAN }

\* config maps as the store can hold them
ConfigMapObjects ==
  { [owners |-> << o >>, values |-> ConfigMapValues(i, c)] :
      o \in Instances, i \in {Issuer, BadIssuer}, c \in ConnectorEntries }

\* the deployment step of m applies the deployment
DeploymentApplied(m) ==
  /\ pc[m] = "deployment"
  /\ pc'[m] # "deployment"
  /\ derived'[RDeployment(m)] # None
  /\ LastOf(rec'[m].trace).ok

\* C25: the configHash a deployment step writes is the digest of the config
\* map stored at that moment and of nothing else: of all config maps only
\* the stored one has this digest, and when the deployment stored before
\* carries the digest of another config map the annotation changes.
C25_DigestFollowsContent ==
  [][\A m \in Instances :
       (DeploymentApplied(m) /\ IsSome(derived[RConfigMap(m)])) =>
         LET cm == Val(derived[RConfigMap(m)])
             new == Val(derived'[RDeployment(m)]).values.configHash
         IN  /\ new = DexConfigMapHash(Some(cm))
             /\ IsSome(new)
             /\ \A c \in ConfigMapObjects :
                  /\ (DexConfigMapHash(Some(c)) = new) <=> (c = cm)
                  /\ ( /\ IsSome(derived[RDeployment(m)])
                       /\ Val(derived[RDeployment(m)]).values.configHash
                            = DexConfigMapHash(Some(c))
                       /\ c # cm )
                     => Val(derived[RDeployment(m)]).values.configHash # new]_vars

\* the deployment carries the digest of a config map that holds a rotated
\* credential: the config changed after the secret was labelled, and the
\* next deployment step wrote the new digest
C25_Witness ==
  \E m \in Instances :
    /\ PassOver(m)
    /\ IsSome(derived[RConfigMap(m)])
    /\ IsSome(derived[RDeployment(m)])
    /\ Val(derived[RConfigMap(m)]) \in ConfigMapObjects
    /\ \E k \in 1 .. Len(Val(derived[RConfigMap(m)]).values.ConnectorsYaml) :
         Val(derived[RConfigMap(m)]).values.ConnectorsYaml[k].secret
           = << "s1", "clientSecret", "rotated" >>
    /\ Val(derived[RDeployment(m)]).values.configHash
         = DexConfigMapHash(derived[RConfigMap(m)])

\* the deployment step of m returns
DeploymentStepReturns(m) == pc[m] = "deployment" /\ pc'[m] # "deployment"

\* C26: in a process that has its image reference, a deployment step that
\* finds no config map and meets no failing call applies the deployment
\* without the configHash annotation and succeeds; a deployment step in
\* which a call fails (the lookup of the config map among them) fails and
\* applies nothing.
C26_MissingConfigMapOmitsDigest ==
  [][\A m \in Instances :
       (DeploymentStepReturns(m) /\ dexImage # "") =>
         IF budget' < budget
         THEN /\ ~LastOf(rec'[m].trace).ok
              /\ derived' = derived
         ELSE /\ LastOf(rec'[m].trace).ok
              /\ IsSome(derived'[RDeployment(m)])
              /\ derived[RConfigMap(m)] = None =>
                   Val(derived'[RDeployment(m)]).values.configHash = None]_vars

\* a pass is over whose deployment step met no config map: the deployment
\* is stored without the annotation
C26_Witness ==
  \E m \in Instances :
    /\ PassOver(m)
    /\ ~rec[m].fault /\ ~rec[m].dirty
    /\ AllEightOk(rec[m].trace)
    /\ derived[RConfigMap(m)] = None
    /\ IsSome(derived[RDeployment(m)])
    /\ Val(derived[RDeployment(m)]).values.configHash = None
    /\ IsSome(Val(derived[RDeployment(m)]).values.grpcMtlsExpiry)

(***************************************************************************)
(* Properties of the status write that ends a pass.                        *)
(***************************************************************************)
\* the pass of m is between its load and its return
InPass(m) == pc[m] \notin {"idle", "panic"}

\* what the step of m's pass and its status write are held to
StatusWriteEndsPass(m) ==
  \* the pass ends with the status write and in no other way
  /\ (InPass(m) /\ ~InPass(m)') => (pc[m] = "status" /\ pc'[m] = "idle")
  \* the status write is made once: the pass is over after it
  /\ (pc[m] = "status" /\ pc'[m] # "status") => pc'[m] = "idle"
  \* no step before it writes the instance
  /\ (InPass(m) /\ pc'[m] # pc[m] /\ pc[m] # "status") =>
       dexServers'[m] = dexServers[m]
  \* a status write that fails: its error is returned, no requeue is asked
  /\ (pc[m] = "status" /\ pc'[m] = "idle" /\ ~rec'[m].statusOk) =>
       /\ result'[m] = "error"
       /\ timer'[m] => timer[m]
       /\ dexServers'[m] = dexServers[m]

\* C30: every pass that loaded its instance ends with one status write,
\* made after the last step it ran and followed by nothing; when the write
\* fails the pass returns the error and asks for no requeue after an hour,
\* whether or not the eight steps succeeded.
C30_OneStatusWriteLast ==
  [][\A m \in Instances : StatusWriteEndsPass(m)]_vars

\* C30 for the passes whose issuer can be parsed: the same property, the
\* pass that panics in the ingress step left out.
C30_OneStatusWriteLastUnlessPanic ==
  [][\A m \in Instances :
       (InPass(m) /\ IsSome(ParseURL(obj[m].issuer))) =>
         StatusWriteEndsPass(m)]_vars

\* a pass ran its eight steps with success, its status write failed, and it
\* returned the error with no requeue asked for
C30_OneStatusWriteLastUnlessPanicWitness ==
  \E m \in Instances :
    /\ PassOver(m)
    /\ AllEightOk(rec[m].trace)
    /\ ~rec[m].statusOk
    /\ result[m] = "error"
    /\ ~timer[m]

(***************************************************************************)
(* Properties of a pass that ends at the load.                             *)
(***************************************************************************)
\* the step is the return of a Reconcile for m whose Get failed
LoadFailed(m) ==
  /\ WorkerFree /\ queued[m]
  /\ pc' = pc
  /\ rec'[m] = NoPass
  /\ ~queued'[m] \/ budget' < budget \/ result'[m] # result[m]

\* C31: a request for an instance that is gone writes nothing (no bundle,
\* no derived resource, no label, no status), returns no error and asks
\* for no requeue; a load that fails in another way returns the error and
\* writes nothing.
C31_FailedLoadWritesNothing ==
  [][\A m \in Instances :
       LoadFailed(m) =>
         /\ << Cluster, dexServers >>' = << Cluster, dexServers >>
         /\ timer' = timer
         /\ IF budget' = budget
            THEN /\ ~IsSome(dexServers[m])
                 /\ result'[m] = "done"
                 /\ ~queued'[m]
            ELSE /\ result'[m] = "error"
                 /\ queued'[m]]_vars

\* an instance that had its resources applied is gone, and the request for
\* it returned with neither an error nor a requeue
C31_Witness ==
  \E m \in Instances :
    /\ ~IsSome(dexServers[m])
    /\ IsSome(derived[RDeployment(m)])
    /\ WorkerFree
    /\ rec[m] = NoPass
    /\ result[m] = "done"
    /\ ~queued[m]

(***************************************************************************)
(* Properties of the expiry annotation of the deployment (specification    *)
(* BundleSpec).                                                            *)
(***************************************************************************)
\* the grpcMtlsExpiry annotation the template renders for bundle b
RenderedExpiry(b) ==
  IF IsSome(b) /\ Val(b).annotation # NoAnnotation
  THEN Some(Val(b).annotation) ELSE None

\* the annotation of the stored deployment of m
StoredExpiry(d, m) == Val(d[RDeployment(m)]).values.grpcMtlsExpiry

StoredReasons(m) ==
  { Val(dexServers[m]).conditions[k].reason :
      k \in 1 .. Len(Val(dexServers[m]).conditions) }

\* the last pass of m that wrote its status lost the race for the secret
LostCreate(m) ==
  IsSome(dexServers[m]) /\ ReasonOf("mtls") \in StoredReasons(m)

\* the pass of m leaves its first step
FirstStepReturns(m) ==
  pc[m] \in {"mtls", "mtlsWrite"} /\ pc'[m] \notin {"mtls", "mtlsWrite"}

\* C33: when the passes of two instances interleave while the grpc-mtls
\* secret is absent, the create of one of them stores the secret and the
\* create of the other fails and leaves the stored secret as it is; the
\* pass that lost records Applied = False with reason
\* ConfigMTLSSecretFailed and runs no later step; its next pass finds the
\* secret, writes nothing in its first step and goes on to the config map.
C33_OneCreateWins ==
  /\ [](\A m \in Instances :
          (rec[m].trace # << >> /\ ~rec[m].trace[1].ok) =>
            /\ Len(rec[m].trace) = 1
            /\ pc[m] \in {"status", "idle"}
            /\ cond[m] = FailedCondition("mtls"))
  /\ [][\A m \in Instances :
         /\ (pc[m] = "mtlsWrite" /\ pc'[m] # "mtlsWrite") =>
              /\ mtlsOp(plan[m]) = "create"
              /\ IF mtls = None
                 THEN /\ IsSome(mtls') /\ Owners(Val(mtls')) = {m}
                      /\ pc'[m] = "configmap"
                 ELSE /\ mtls' = mtls
                      /\ pc'[m] = "status"
                      /\ cond'[m].reason = "ConfigMTLSSecretFailed"
         /\ (FirstStepReturns(m) /\ LostCreate(m)) =>
              /\ pc[m] = "mtls"
              /\ mtlsOp(plan'[m]) = "none"
              /\ IsSome(mtls) /\ mtls' = mtls
              /\ pc'[m] = "configmap"]_vars

\* d1 created the secret, the pass of d2 lost the race and recorded the
\* failure, and the next pass of d2 has left its first step with the
\* secret of d1 in place
C33_Witness ==
  /\ IsSome(mtls) /\ Owners(Val(mtls)) = {"d1"}
  /\ LostCreate("d2")
  /\ pc["d2"] = "configmap"
  /\ mtlsOp(plan["d2"]) = "none"
  /\ PassOver("d1") /\ AllEightOk(rec["d1"].trace)


====
